---- MODULE Spec2Model ----
(***************************************************************************)
(* A model of the quantitative engine of the portfolio platform:           *)
(*   backend/simulation/engine/monte_carlo.py   (regime transform,         *)
(*       Monte Carlo simulation, risk metrics, covariance diagnostics)     *)
(*   backend/optimization/engine/markowitz.py   (portfolio metrics,        *)
(*       efficient frontier, maximum-Sharpe portfolio)                     *)
(*                                                                         *)
(* Real numbers are exact rationals (FNum), extended with the IEEE values  *)
(* NaN and +/-Inf that numpy produces on 0/0, x/0 and sqrt(negative).      *)
(* Floating-point rounding is not modelled.                                *)
(* Covariances are expressed in units of 2e-8, so that the PSD tolerance   *)
(* 1e-8 of the code is the rational 1/2; the inputs of the optimiser are   *)
(* multiples of 1/252, so that annualised figures are small.               *)
(***************************************************************************)
EXTENDS Integers, Sequences, FiniteSets, TLC

VARIABLES
    mean_returns,          \* pd.Series: ticker -> daily mean return
    cov_matrix,            \* pd.DataFrame: ticker -> ticker -> covariance
    regime_asset_factors,  \* dict: ticker -> factors, "correlation_move_pct" -> number
    regime_result,         \* outcome of the last modify_portfolio_for_regime call
    regime_previous,       \* outcome of the call before it, on the same arguments
    portfolio_paths,       \* list of simulated value paths given to calculate_risk_metrics
    risk_result,           \* outcome of the last calculate_risk_metrics call
    weights,               \* portfolio weights given to calculate_portfolio_metrics
    metrics_result,        \* outcome of the last calculate_portfolio_metrics call
    risk_free_rate,        \* annual risk-free rate given to maximize_sharpe_portfolio
    sharpe_result,         \* outcome of the last maximize_sharpe_portfolio call
    rng_state,             \* state of the global generator behind np.random
    sim_calls,             \* the invocations of simulate_portfolio_paths
    num_points,            \* num_points given to calculate_efficient_frontier
    target_index,          \* position of its loop in target_returns
    solve_statuses,        \* problem.status of every target solved so far
    efficient_frontier,    \* its local list of frontier points
    failed_points,         \* its local count of skipped targets
    frontier_result,       \* outcome of the last calculate_efficient_frontier call
    correlation_result,    \* outcome of the last analyze_portfolio_correlation call
    risk_factors_result,   \* outcome of the last analyze_portfolio_risk_factors call
    pc_loadings,             \* loadings of one principal component, one per asset
    pc_eigval,             \* its scaled eigenvalue
    pc_selected,           \* the selected_assets reported for it
    validation_request,    \* arguments of validate_portfolio, and what the price fetch does
    validation_result,     \* outcome of the last validate_portfolio call
    api_request,           \* arguments of an API entry point, and what its collaborators do
    api_pc,                \* the statement the entry point has reached
    api_calls,             \* the collaborators it has called so far, in order
    api_response,          \* the HTTP response of the entry point
    current_tickers,       \* LivePriceStreamer.current_tickers
    yf_sockets,            \* every yf.AsyncWebSocket made by the streamer, in order
    yf_tasks,              \* every listen task made by the streamer, in order
    yf_websocket,          \* local variable of start: position in yf_sockets
    yf_task,               \* local variable of start: position in yf_tasks
    custom_tickers,        \* the ticker list received from the frontend
    stream_pc,             \* the statement start has reached
    stream_events,         \* what was done to sockets and tasks, in order
    stream_received,       \* how many ticker lists the frontend has sent
    update_before,         \* the streamer when _update_subscription was called
    update_return,         \* what _update_subscription returned
    connections,           \* ProgressBroadcaster.connections
    client_sockets,        \* every client websocket: new, open, closed, released
    broadcast_pc,          \* where broadcast_progress is: idle, send, returned, raised
    broadcast_position,    \* position of its for loop in connections
    sending_to,            \* the connection whose send_text is awaited
    dead_connections,      \* its local list of connections whose send failed
    delivered,             \* how often each client received the message in flight
    failed_sends,          \* the clients a send to which has failed
    listed_at_start,       \* connections when the broadcast in flight began
    released_during,       \* the clients disconnect removed while it was in flight
    broadcasts_started     \* how many broadcasts have begun

regimeVars == <<regime_asset_factors, regime_result, regime_previous>>

riskVars == <<portfolio_paths, risk_result>>

metricsVars == <<weights, metrics_result>>

sharpeVars == <<risk_free_rate, sharpe_result>>

simVars == <<rng_state, sim_calls>>

frontierVars == <<num_points, target_index, solve_statuses, efficient_frontier,
                  failed_points, frontier_result>>

selectionVars == <<pc_loadings, pc_eigval, pc_selected>>

analysisVars == <<correlation_result, risk_factors_result, selectionVars>>

validationVars == <<validation_request, validation_result>>

requestVars == <<api_request, api_pc, api_calls, api_response>>

streamVars == <<current_tickers, yf_sockets, yf_tasks, yf_websocket, yf_task,
                custom_tickers, stream_pc, stream_events, stream_received,
                update_before, update_return>>

broadcastVars == <<connections, client_sockets, broadcast_pc, broadcast_position,
                   sending_to, dead_connections, delivered, failed_sends,
                   listed_at_start, released_during, broadcasts_started>>

apiVars == <<validationVars, requestVars, streamVars, broadcastVars>>

engineVars == <<mean_returns, cov_matrix, regimeVars, riskVars, metricsVars, sharpeVars,
                simVars, frontierVars, analysisVars>>

vars == <<mean_returns, cov_matrix, regimeVars, riskVars, metricsVars, sharpeVars,
          simVars, frontierVars, analysisVars, apiVars>>

-----------------------------------------------------------------------------
(* Exact arithmetic on extended rationals *)

Abs(x) == IF x < 0 THEN -x ELSE x

Sign(x) == IF x < 0 THEN -1 ELSE IF x > 0 THEN 1 ELSE 0

RECURSIVE GCD(_, _)
GCD(a, b) == IF b = 0 THEN a ELSE GCD(b, a % b)

\* the rational n/d in lowest terms with a positive denominator
FNum(n, d) ==
    LET g == GCD(Abs(n), Abs(d))
        s == IF d < 0 THEN -1 ELSE 1
    IN  [k |-> "num", n |-> s * (n \div g), d |-> Abs(d) \div g]

FInt(n) == [k |-> "num", n |-> n, d |-> 1]

NaN == [k |-> "nan", n |-> 0, d |-> 1]

Inf(s) == [k |-> "inf", n |-> s, d |-> 1]

IsNum(a) == a.k = "num"

\* IEEE multiplication: NaN is absorbing, Inf * 0 = NaN
\* (common factors are cancelled before the products are formed)
FMul(a, b) ==
    IF a.k = "nan" \/ b.k = "nan" THEN NaN
    ELSE IF a.k = "inf" \/ b.k = "inf"
         THEN IF a.n = 0 \/ b.n = 0 THEN NaN ELSE Inf(Sign(a.n) * Sign(b.n))
         ELSE LET g1 == GCD(Abs(a.n), b.d)
                  g2 == GCD(Abs(b.n), a.d)
              IN  FNum((a.n \div g1) * (b.n \div g2), (a.d \div g2) * (b.d \div g1))

\* IEEE addition: NaN is absorbing, Inf + (-Inf) = NaN
FAdd(a, b) ==
    IF a.k = "nan" \/ b.k = "nan" THEN NaN
    ELSE IF a.k = "inf" /\ b.k = "inf"
         THEN IF a.n = b.n THEN a ELSE NaN
         ELSE IF a.k = "inf" THEN a
         ELSE IF b.k = "inf" THEN b
         ELSE LET g == GCD(a.d, b.d)
              IN  FNum(a.n * (b.d \div g) + b.n * (a.d \div g), (a.d \div g) * b.d)

FNeg(a) == IF a.k = "nan" THEN NaN ELSE [a EXCEPT !.n = -a.n]

FSub(a, b) == FAdd(a, FNeg(b))

\* numpy division: x/0 = +/-Inf, 0/0 = NaN (a warning, not an exception)
FDiv(a, b) ==
    IF a.k = "nan" \/ b.k = "nan" THEN NaN
    ELSE IF b.k = "inf"
         THEN IF a.k = "inf" THEN NaN ELSE FInt(0)
         ELSE IF a.k = "inf"
              THEN Inf(IF b.n < 0 THEN -a.n ELSE a.n)
              ELSE IF b.n = 0
                   THEN IF a.n = 0 THEN NaN ELSE Inf(Sign(a.n))
                   ELSE FMul(a, FNum(b.d, b.n))

\* comparisons; any comparison with NaN is false, as in IEEE
FLt(a, b) ==
    /\ a.k # "nan" /\ b.k # "nan"
    /\ IF a.k = "inf" THEN a.n < 0 /\ ~(b.k = "inf" /\ b.n < 0)
       ELSE IF b.k = "inf" THEN b.n > 0
       ELSE a.n * b.d < b.n * a.d

FLe(a, b) ==
    /\ a.k # "nan" /\ b.k # "nan"
    /\ (a = b \/ FLt(a, b))

FGe(a, b) == FLe(b, a)

FAbs(a) == IF a.k = "nan" THEN NaN ELSE [a EXCEPT !.n = Abs(a.n)]

FGt(a, b) == FLt(b, a)

\* the exact integer square root; the model only takes roots of squares
RECURSIVE RootBetween(_, _, _)
RootBetween(n, lo, hi) ==
    IF lo >= hi THEN lo
    ELSE LET mid == lo + (hi - lo + 1) \div 2
         IN  IF mid <= n \div mid THEN RootBetween(n, mid, hi)
             ELSE RootBetween(n, lo, mid - 1)

ISqrt(n) == CHOOSE r \in {RootBetween(n, 0, n)} : r * r = n

\* np.sqrt: NaN for a negative argument (a warning, not an exception)
FSqrt(a) ==
    IF a.k = "nan" THEN NaN
    ELSE IF a.k = "inf" THEN (IF a.n > 0 THEN a ELSE NaN)
    ELSE IF a.n < 0 THEN NaN
    ELSE FNum(ISqrt(a.n), ISqrt(a.d))

\* np.clip(x, lo, hi) = minimum(maximum(x, lo), hi); NaN propagates
FClip(a, lo, hi) ==
    IF a.k = "nan" THEN NaN
    ELSE IF FLt(a, lo) THEN lo
    ELSE IF FGt(a, hi) THEN hi
    ELSE a

-----------------------------------------------------------------------------
(* The asset universe and the bounded input sets *)

\* cov_matrix.columns: the tickers, in column order
Columns == <<"AAA", "BBB">>

Tickers == {Columns[i] : i \in 1..Len(Columns)}

MaxStd == 2

MaxCov == 2

MeanValues == {FInt(-1), FInt(2)}

\* variances are squares, so that np.sqrt of a variance is a rational
Variances == {FInt(s * s) : s \in 0..MaxStd}

Covariances == {FInt(c) : c \in (-MaxCov)..MaxCov}

MeanVectors == [Tickers -> MeanValues]

\* symmetric matrices, as pandas' DataFrame.cov() produces them
CovMatrices ==
    {[t \in Tickers |-> [u \in Tickers |->
          IF t = u THEN d[t] ELSE o]] :
       d \in [Tickers -> Variances], o \in Covariances}

\* cov_matrix.values.shape: a DataFrame is a function from its row labels to
\* functions from its column labels, the empty DataFrame is the function of
\* empty domain
Shape(frame) ==
    IF DOMAIN frame = {} THEN <<0, 0>>
    ELSE <<Cardinality(DOMAIN frame),
           Cardinality(DOMAIN frame[CHOOSE r \in DOMAIN frame : TRUE])>>

IsSquareShape(frame) == Shape(frame)[1] = Shape(frame)[2]

DefaultMean == [t \in Tickers |-> FInt(2)]

DefaultCov == [t \in Tickers |-> [u \in Tickers |-> IF t = u THEN FInt(1) ELSE FInt(0)]]

MeanFactors == {FNum(1, 2), FInt(1)}

VolFactors == {FNum(1, 2), FInt(1), FInt(2)}

CorrelationMoves == {FNum(-1, 2), FInt(0), FNum(1, 2)}

AssetFactors == [mean_factor : MeanFactors, vol_factor : VolFactors]

CMP == "correlation_move_pct"

\* the regime dictionaries: factors for a subset of the tickers, with or
\* without the global key "correlation_move_pct"
RegimeDicts ==
    UNION {
        {[key \in S \cup {CMP} |-> IF key = CMP THEN cm ELSE f[key]] :
            f \in [S -> AssetFactors], cm \in CorrelationMoves}
        \cup [S -> AssetFactors] :
        S \in SUBSET Tickers}

-----------------------------------------------------------------------------
(* analyze_portfolio_correlation *)

\* std_devs = np.sqrt(np.diag(cov_matrix.values))
std_devs(cov) == [t \in Tickers |-> FSqrt(cov[t][t])]

\* np.outer(std_devs, std_devs)
stdev_outer_product(cov) ==
    [t \in Tickers |-> [u \in Tickers |-> FMul(std_devs(cov)[t], std_devs(cov)[u])]]

\* a faulty variant: the clip keeps only non-negative correlations
correlation_matrix_clip0(cov) ==
    [t \in Tickers |-> [u \in Tickers |->
        FClip(FDiv(cov[t][u], stdev_outer_product(cov)[t][u]), FInt(0), FInt(1))]]

\* a faulty variant: the quotient is not clipped
correlation_matrix_unclipped(cov) ==
    [t \in Tickers |-> [u \in Tickers |->
        FDiv(cov[t][u], stdev_outer_product(cov)[t][u])]]

\* cov / stdev_outer_product, clipped to [-1, 1]
correlation_matrix(cov) ==
    [t \in Tickers |-> [u \in Tickers |->
        FClip(FDiv(cov[t][u], stdev_outer_product(cov)[t][u]), FInt(-1), FInt(1))]]

-----------------------------------------------------------------------------
(* modify_portfolio_for_regime *)

NoValue == <<>>

\* a faulty variant: an entry whose ticker_j has no factors is left as it is
RECURSIVE ScaleRow_skipping(_, _, _, _)
ScaleRow_skipping(factors, ti, j, cov) ==
    IF j > Len(Columns) THEN [status |-> "ok", cov |-> cov]
    ELSE LET tj == Columns[j] IN
         IF tj \notin DOMAIN factors
         THEN ScaleRow_skipping(factors, ti, j + 1, cov)
         ELSE LET vi == factors[ti].vol_factor
                  vj == factors[tj].vol_factor
              IN  ScaleRow_skipping(factors, ti, j + 1,
                                    [cov EXCEPT ![ti][tj] = FMul(@, FMul(vi, vj))])

\* the inner loop over ticker_j: row ticker_i of the covariance matrix is
\* scaled entry by entry; factors[ticker_j] raises KeyError when absent
RECURSIVE ScaleRow(_, _, _, _)
ScaleRow(factors, ti, j, cov) ==
    IF j > Len(Columns) THEN [status |-> "ok", cov |-> cov]
    ELSE LET tj == Columns[j] IN
         IF tj \notin DOMAIN factors
         THEN [status |-> "KeyError", cov |-> cov]
         ELSE LET vi == factors[ti].vol_factor
                  vj == factors[tj].vol_factor
              IN  ScaleRow(factors, ti, j + 1,
                           [cov EXCEPT ![ti][tj] = FMul(@, FMul(vi, vj))])

\* the outer loop over ticker_i, with its early return for a ticker that is
\* not a key of the regime dictionary
RECURSIVE ScaleLoop(_, _, _, _)
ScaleLoop(factors, i, mean, cov) ==
    IF i > Len(Columns) THEN [status |-> "done", mean |-> mean, cov |-> cov]
    ELSE LET ti == Columns[i] IN
         IF ti \notin DOMAIN factors
         THEN [status |-> "return", mean |-> mean, cov |-> cov]
         ELSE LET m2  == [mean EXCEPT ![ti] = FMul(@, factors[ti].mean_factor)]
                  row == ScaleRow(factors, ti, 1, cov)
              IN  IF row.status = "KeyError"
                  THEN [status |-> "KeyError", mean |-> m2, cov |-> row.cov]
                  ELSE ScaleLoop(factors, i + 1, m2, row.cov)

\* a faulty variant: the moved correlations are not clipped
AdjustCorrelations_unclipped(factors, corr) ==
    [t \in Tickers |-> [u \in Tickers |->
        IF t # u
        THEN FAdd(corr[t][u], FMul(corr[t][u], factors[CMP]))
        ELSE corr[t][u]]]

\* the second pair of loops: every off-diagonal correlation is moved by
\* correlation_move_pct and clipped
AdjustCorrelations(factors, corr) ==
    [t \in Tickers |-> [u \in Tickers |->
        IF t # u
        THEN FClip(FAdd(corr[t][u], FMul(corr[t][u], factors[CMP])),
                   FInt(-1), FInt(1))
        ELSE corr[t][u]]]

\* a faulty variant: no copy is made, the loops assign to the caller's object
copy_alias(x) == [object |-> "argument", value |-> x]

\* x.copy(): a new object with the values of x
copy(x) == [object |-> "copy", value |-> x]

\* the caller's mean vector, covariance matrix and regime dictionary after a
\* call: the loops assign in place (*=, .loc) to modified_mean_returns and
\* modified_cov_matrix, up to the point where they return or raise; the
\* dictionary is only read, and the covariance that is returned is a new
\* DataFrame built from corr_matrix.values * stdev_outer_product
ArgumentsAfter(mean, cov, factors) ==
    LET modified_mean_returns == copy(mean)
        modified_cov_matrix   == copy(cov)
        scaled == ScaleLoop(factors, 1, modified_mean_returns.value,
                            modified_cov_matrix.value)
    IN  [mean    |-> IF modified_mean_returns.object = "argument"
                     THEN scaled.mean ELSE mean,
         cov     |-> IF modified_cov_matrix.object = "argument"
                     THEN scaled.cov ELSE cov,
         factors |-> factors]

modify_portfolio_for_regime(mean, cov, factors) ==
    LET scaled == ScaleLoop(factors, 1, copy(mean).value, copy(cov).value) IN
    IF scaled.status = "return"
    THEN [status |-> "returned", error |-> "none",
          mean |-> scaled.mean, cov |-> scaled.cov]
    ELSE IF scaled.status = "KeyError"
    THEN [status |-> "raised", error |-> "KeyError",
          mean |-> NoValue, cov |-> NoValue]
    ELSE IF Len(Columns) > 1 /\ CMP \notin DOMAIN factors
    THEN [status |-> "raised", error |-> "KeyError",
          mean |-> NoValue, cov |-> NoValue]
    ELSE LET corr    == AdjustCorrelations(factors, correlation_matrix(scaled.cov))
             outer   == stdev_outer_product(scaled.cov)
             new_cov == [t \in Tickers |-> [u \in Tickers |->
                            FMul(corr[t][u], outer[t][u])]]
         IN  [status |-> "returned", error |-> "none",
              mean |-> scaled.mean, cov |-> new_cov]

NoCall == [status |-> "none", error |-> "none", mean |-> NoValue, cov |-> NoValue]

\* how many calls are made on the same arguments
MaxRegimeCalls == 2

RegimeCallsMade ==
    IF regime_result.status = "none" THEN 0
    ELSE IF regime_previous.status = "none" THEN 1 ELSE 2

\* one call of modify_portfolio_for_regime on the current inputs; the caller
\* keeps the objects it passed, as the call leaves them
ApplyRegime ==
    /\ RegimeCallsMade < MaxRegimeCalls
    /\ regime_previous' = regime_result
    /\ regime_result' =
          modify_portfolio_for_regime(mean_returns, cov_matrix, regime_asset_factors)
    /\ LET after == ArgumentsAfter(mean_returns, cov_matrix, regime_asset_factors)
       IN  /\ mean_returns' = after.mean
           /\ cov_matrix' = after.cov
           /\ regime_asset_factors' = after.factors
    /\ UNCHANGED <<analysisVars, apiVars, riskVars, metricsVars, sharpeVars, simVars,
                   frontierVars>>

-----------------------------------------------------------------------------
(* calculate_risk_metrics *)

\* the longest list of paths, the longest list given in every order, and
\* the number of simulated days of a path
MaxPaths == 11

MaxShuffled == 2

SizeDays == 2

\* every simulated path starts at the same initial value
InitialValue == 2

LaterValues == {1, 2, 3}

PathsOfLength(n) ==
    {<<InitialValue>> \o tail : tail \in [1..n -> LaterValues]}

\* the path that moves to value v on the first day and stays there
FlatPath(v) == <<InitialValue>> \o [i \in 1..SizeDays |-> v]

\* the list of k flat paths, cnt[v] of them ending at v, by ascending value
RECURSIVE CountSum(_, _)
CountSum(cnt, S) ==
    IF S = {} THEN 0
    ELSE LET u == CHOOSE x \in S : TRUE IN cnt[u] + CountSum(cnt, S \ {u})

RankedList(k, cnt) ==
    [i \in 1..k |->
        FlatPath(CHOOSE v \in LaterValues :
            LET below == CountSum(cnt, {u \in LaterValues : u < v})
            IN  below < i /\ i <= below + cnt[v])]

Reverse(seq) == [i \in 1..Len(seq) |-> seq[Len(seq) + 1 - i]]

\* the path of a simulation called with initial_value = 0: every value is
\* 0 * (1 + r) = 0
ZeroPath == [i \in 1..(SizeDays + 1) |-> 0]

\* lists of up to MaxPaths paths ordered by final value (ascending and
\* descending), every list of up to MaxShuffled arbitrary paths, and the
\* lists of up to MaxShuffled paths of a simulation started at 0
PathLists ==
    LET ranked == UNION {
            {RankedList(k, cnt) :
                cnt \in {c \in [LaterValues -> 0..k] : CountSum(c, LaterValues) = k}} :
            k \in 1..MaxPaths}
    IN  ranked \cup {Reverse(l) : l \in ranked}
        \cup UNION {[1..k -> PathsOfLength(SizeDays)] : k \in 1..MaxShuffled}
        \cup {[i \in 1..k |-> ZeroPath] : k \in 1..MaxShuffled}

RECURSIVE FSum(_)
FSum(seq) == IF seq = <<>> THEN FInt(0) ELSE FAdd(seq[1], FSum(Tail(seq)))

\* np.mean of a non-empty list
FMean(seq) == FDiv(FSum(seq), FInt(Len(seq)))

RECURSIVE FMinSeq(_)
FMinSeq(seq) ==
    IF Len(seq) = 1 THEN seq[1]
    ELSE LET m == FMinSeq(Tail(seq)) IN IF FLe(seq[1], m) THEN seq[1] ELSE m

RECURSIVE InsertSorted(_, _)
InsertSorted(x, seq) ==
    IF seq = <<>> THEN <<x>>
    ELSE IF FLe(x, seq[1]) THEN <<x>> \o seq
    ELSE <<seq[1]>> \o InsertSorted(x, Tail(seq))

RECURSIVE SortAscending(_)
SortAscending(seq) ==
    IF seq = <<>> THEN <<>> ELSE InsertSorted(seq[1], SortAscending(Tail(seq)))

\* np.percentile(a, q) with the default linear interpolation: the value at
\* the virtual index (n - 1) * q / 100 of the sorted array; NaN as soon as
\* the array holds a NaN
Percentile(seq, q) ==
    LET a    == SortAscending(seq)
        n    == Len(a)
        lo   == ((n - 1) * q) \div 100
        frac == FNum(((n - 1) * q) % 100, 100)
    IN  IF \E i \in 1..Len(seq) : seq[i].k = "nan" THEN NaN
        ELSE IF lo + 2 > n THEN a[lo + 1]
        ELSE FAdd(a[lo + 1], FMul(FSub(a[lo + 2], a[lo + 1]), frac))

\* loss = -(final_value / initial_value - 1)
PathLoss(path, initial_value) ==
    FNeg(FSub(FDiv(FInt(path[Len(path)]), FInt(initial_value)), FInt(1)))

\* a faulty variant: the peak is the first value of the path
RunningMax_first(path, i) == path[1]

\* np.maximum.accumulate(path)
RECURSIVE RunningMax(_, _)
RunningMax(path, i) ==
    IF i = 1 THEN path[1]
    ELSE LET m == RunningMax(path, i - 1) IN IF path[i] > m THEN path[i] ELSE m

\* np.min((path - running_max) / running_max)
MaxDrawdown(path) ==
    FMinSeq([i \in 1..Len(path) |->
        FDiv(FInt(path[i] - RunningMax(path, i)), FInt(RunningMax(path, i)))])

\* a faulty variant: the tail of the losses at or below the threshold
TailOf_below(losses, var) == SelectSeq(losses, LAMBDA l : FLe(l, var))

\* a faulty variant: the tail of the losses strictly above the threshold
TailOf_above(losses, var) == SelectSeq(losses, LAMBDA l : FGt(l, var))

\* the tail [l for l in losses if l >= var]
TailOf(losses, var) == SelectSeq(losses, LAMBDA l : FGe(l, var))

\* the mean of the tail, or var itself for an empty tail
CVaR(losses, var) ==
    IF TailOf(losses, var) # <<>> THEN FMean(TailOf(losses, var)) ELSE var

calculate_risk_metrics(paths) ==
    LET initial_value == paths[1][1]
        losses        == [i \in 1..Len(paths) |-> PathLoss(paths[i], initial_value)]
        max_drawdowns == [i \in 1..Len(paths) |-> MaxDrawdown(paths[i])]
        var_90        == Percentile(losses, 90)
        var_99        == Percentile(losses, 99)
        cvar_90       == CVaR(losses, var_90)
        cvar_99       == CVaR(losses, var_99)
    IN  [status           |-> "returned",
         var_90           |-> FMul(var_90, FInt(initial_value)),
         var_99           |-> FMul(var_99, FInt(initial_value)),
         cvar_90          |-> FMul(cvar_90, FInt(initial_value)),
         cvar_99          |-> FMul(cvar_99, FInt(initial_value)),
         var_90_pct       |-> FMul(var_90, FInt(100)),
         var_99_pct       |-> FMul(var_99, FInt(100)),
         cvar_90_pct      |-> FMul(cvar_90, FInt(100)),
         cvar_99_pct      |-> FMul(cvar_99, FInt(100)),
         max_drawdown_pct |-> FMul(FMinSeq(max_drawdowns), FInt(100))]

NoRisk == [status |-> "none"]

\* one call of calculate_risk_metrics on the current list of paths
RiskMetrics ==
    /\ risk_result.status = "none"
    /\ portfolio_paths # <<>>
    /\ risk_result' = calculate_risk_metrics(portfolio_paths)
    /\ UNCHANGED <<mean_returns, cov_matrix, analysisVars, apiVars, regimeVars, portfolio_paths, metricsVars,
                   sharpeVars, simVars, frontierVars>>

-----------------------------------------------------------------------------
(* calculate_portfolio_metrics *)

\* weights are multiples of 1 / WeightGrid
WeightGrid == 4

\* long-only, fully-invested weight vectors over the two assets
WeightVectors ==
    {[t \in Tickers |-> IF t = Columns[1] THEN FNum(k, WeightGrid)
                        ELSE FNum(WeightGrid - k, WeightGrid)] : k \in 0..WeightGrid}

TradingDays == 252

\* the square root of a non-negative rational n/d, kept exact as the surd
\* [k |-> "surd", n, d]; np.sqrt of a negative number is NaN
FSurd(x) ==
    IF x.k = "num" /\ x.n >= 0 THEN [k |-> "surd", n |-> x.n, d |-> x.d] ELSE NaN

\* sqrt(a) * sqrt(b) = sqrt(a * b)
SurdMul(a, b) ==
    IF a.k # "surd" \/ b.k # "surd" THEN NaN
    ELSE LET r == FNum(a.n * b.n, a.d * b.d) IN [k |-> "surd", n |-> r.n, d |-> r.d]

RECURSIVE DotFrom(_, _, _)
DotFrom(x, y, i) ==
    IF i > Len(Columns) THEN FInt(0)
    ELSE FAdd(FMul(x[Columns[i]], y[Columns[i]]), DotFrom(x, y, i + 1))

\* np.dot / np.sum(x * y) of two vectors indexed by ticker
Dot(x, y) == DotFrom(x, y, 1)

\* np.dot(cov_matrix, weights)
MatVec(cov, w) == [t \in Tickers |-> Dot(cov[t], w)]

\* a faulty variant: the variance without the covariance terms
portfolio_daily_variance_diagonal(w, cov) ==
    Dot(w, [t \in Tickers |-> FMul(cov[t][t], w[t])])

\* w^T * Cov * w
portfolio_daily_variance(w, cov) == Dot(w, MatVec(cov, w))

calculate_portfolio_metrics(w, mean, cov) ==
    [status                |-> "returned",
     annualized_return     |-> FMul(Dot(mean, w), FInt(TradingDays)),
     annualized_volatility |->
         SurdMul(FSurd(portfolio_daily_variance(w, cov)), FSurd(FInt(TradingDays)))]

NoMetrics == [status |-> "none"]

\* one call of calculate_portfolio_metrics on the current inputs
PortfolioMetrics ==
    /\ metrics_result.status = "none"
    /\ weights # <<>>
    /\ metrics_result' = calculate_portfolio_metrics(weights, mean_returns, cov_matrix)
    /\ UNCHANGED <<mean_returns, cov_matrix, analysisVars, apiVars, regimeVars, riskVars, weights, sharpeVars,
                   simVars, frontierVars>>

-----------------------------------------------------------------------------
(* The quadratic programs and their solver (cvxpy with OSQP)                *)
(* For the two assets of the model the minimiser of w' Cov w over a         *)
(* segment or ray {P + s d} is computed exactly.                            *)

\* positive semi-definite in the exact sense (all eigenvalues >= 0): for a
\* symmetric 2 x 2 matrix, both variances and the determinant are >= 0
IsPSD(cov) ==
    LET a == cov[Columns[1]][Columns[1]]
        b == cov[Columns[1]][Columns[2]]
        c == cov[Columns[2]][Columns[2]]
    IN  /\ FGe(a, FInt(0))
        /\ FGe(c, FInt(0))
        /\ FGe(FSub(FMul(a, c), FMul(b, b)), FInt(0))

\* the inputs of the optimiser are multiples of 1/252 per day, which keeps
\* the annualised figures small
OptMeanValues == {FNum(-1, 252), FNum(1, 252), FNum(2, 252)}

OptMeanVectors == [Tickers -> OptMeanValues]

PSDCovMatrices ==
    {[t \in Tickers |-> [u \in Tickers |-> FMul(c[t][u], FNum(1, 252))]] :
        c \in {m \in CovMatrices : IsPSD(m)}}

\* annual rates; the daily rate is the annual rate / 252
RiskFreeRates == {FInt(0), FNum(3, 2)}

Vec(x1, x2) == [t \in Tickers |-> IF t = Columns[1] THEN x1 ELSE x2]

VecAdd(x, y) == [t \in Tickers |-> FAdd(x[t], y[t])]

VecScale(s, x) == [t \in Tickers |-> FMul(s, x[t])]

\* the minimisers of w' Cov w over {P + s d : 0 <= s <= smax} (smax = Inf(1)
\* for a ray); where the objective is constant along d the solver may end
\* at any point, represented by s = 0 and s = sflat
SegmentMinimisers(cov, P, d, smax, sflat) ==
    LET dSd == Dot(d, MatVec(cov, d))
        dSP == Dot(d, MatVec(cov, P))
    IN  IF FGt(dSd, FInt(0))
        THEN {VecAdd(P, VecScale(FClip(FNeg(FDiv(dSP, dSd)), FInt(0), smax), d))}
        ELSE {P, VecAdd(P, VecScale(sflat, d))}

\* sum(P) / sum(d): the point of the ray P + s d half-way (after
\* normalisation) between the directions of P and of d
RayMidpoint(P, d) ==
    FDiv(FAdd(P[Columns[1]], P[Columns[2]]), FAdd(d[Columns[1]], d[Columns[2]]))

\* the feasible set of maximize_sharpe_portfolio's problem:
\* mean @ w - daily_risk_free_rate == 1, w >= 0 (kappa = sum(w) is free)
SharpeFeasible(mean, daily_rf) ==
    \E t \in Tickers : FGt(FMul(mean[t], FAdd(FInt(1), daily_rf)), FInt(0))

\* the optimal w of that problem
SharpeSolutions(mean, cov, daily_rf) ==
    LET c  == FAdd(FInt(1), daily_rf)
        m1 == mean[Columns[1]]
        m2 == mean[Columns[2]]
        E1 == Vec(FDiv(c, m1), FInt(0))
        E2 == Vec(FInt(0), FDiv(c, m2))
        d  == Vec(FAbs(m2), FAbs(m1))
    IN  IF FGt(FMul(m1, c), FInt(0)) /\ FGt(FMul(m2, c), FInt(0))
        THEN SegmentMinimisers(cov, E1, VecAdd(E2, VecScale(FInt(-1), E1)),
                               FInt(1), FInt(1))
        ELSE IF FGt(FMul(m1, c), FInt(0))
        THEN SegmentMinimisers(cov, E1, d, Inf(1), RayMidpoint(E1, d))
        ELSE SegmentMinimisers(cov, E2, d, Inf(1), RayMidpoint(E2, d))

\* problem.status after problem.solve(solver=cp.OSQP, max_iter=5000,
\* time_limit=...): a feasible problem ends optimal, or inaccurate or at the
\* iteration/time limit; an infeasible one is reported infeasible; a singular
\* covariance may be reported unbounded
SolverStatuses(feasible, cov) ==
    IF ~feasible THEN {"infeasible", "infeasible_inaccurate"}
    ELSE {"optimal", "optimal_inaccurate", "user_limit"}
         \cup (IF FSub(FMul(cov[Columns[1]][Columns[1]], cov[Columns[2]][Columns[2]]),
                       FMul(cov[Columns[1]][Columns[2]], cov[Columns[2]][Columns[1]]))
                  = FInt(0)
               THEN {"unbounded"} ELSE {})

-----------------------------------------------------------------------------
(* maximize_sharpe_portfolio *)

\* the exception raised for a status other than "optimal"
SharpeError(status) ==
    IF status = "infeasible"
    THEN [type |-> "ValueError",
          message |-> "Cannot find portfolio with maximum Sharpe ratio."]
    ELSE IF status = "unbounded"
    THEN [type |-> "ValueError",
          message |-> "Portfolio optimization is unbounded."]
    ELSE [type |-> "ValueError",
          message |-> "Portfolio optimization failed (status)."]

NoError == [type |-> "none", message |-> ""]

\* (portfolio_return - risk_free_rate) / portfolio_volatility, kept as the
\* pair of the excess return and the volatility (a surd)
SharpeRatio(ret, rf, vol) == [excess |-> FSub(ret, rf), volatility |-> vol]

\* a faulty variant: the solver's weights are returned as they are
NormalizeWeights_raw(w) == w

\* weights.value / kappa.value, where the constraint makes kappa = sum(w)
NormalizeWeights(w) ==
    LET kappa == Dot(w, [t \in Tickers |-> FInt(1)])
    IN  [t \in Tickers |-> FDiv(w[t], kappa)]

\* status and w are the solver's outcome: problem.status and weights.value
maximize_sharpe_portfolio(mean, cov, rf, status, w) ==
    IF status # "optimal"
    THEN [status |-> "raised", error |-> SharpeError(status), solver_status |-> status,
          return |-> NoValue, volatility |-> NoValue, weights |-> NoValue,
          sharpe_ratio |-> NoValue]
    ELSE LET optimal_weights == NormalizeWeights(w)
             metrics == calculate_portfolio_metrics(optimal_weights, mean, cov)
         IN  [status |-> "returned", error |-> NoError, solver_status |-> status,
              return |-> metrics.annualized_return,
              volatility |-> metrics.annualized_volatility,
              weights |-> optimal_weights,
              sharpe_ratio |-> SharpeRatio(metrics.annualized_return, rf,
                                           metrics.annualized_volatility)]

NoSharpe == [status |-> "none"]

\* one call of maximize_sharpe_portfolio; the solver's status and solution
\* are chosen among those the problem admits
MaximizeSharpe ==
    /\ sharpe_result.status = "none"
    /\ risk_free_rate # NoValue
    /\ LET daily_risk_free_rate == FDiv(risk_free_rate, FInt(TradingDays))
           feasible == SharpeFeasible(mean_returns, daily_risk_free_rate)
       IN  \E status \in SolverStatuses(feasible, cov_matrix) :
           \E w \in IF feasible
                    THEN SharpeSolutions(mean_returns, cov_matrix, daily_risk_free_rate)
                    ELSE {NoValue} :
               sharpe_result' = maximize_sharpe_portfolio(
                                    mean_returns, cov_matrix, risk_free_rate, status, w)
    /\ UNCHANGED <<mean_returns, cov_matrix, analysisVars, apiVars, regimeVars, riskVars, metricsVars,
                   risk_free_rate, simVars, frontierVars>>

-----------------------------------------------------------------------------
(* simulate_daily_returns and simulate_portfolio_paths                      *)
(* The functions take no seed and no generator: every sample comes from the *)
(* module-level generator of np.random, which all invocations share.        *)

Invocations == {"first", "second"}

MaxSimulations == 2

\* the standard normal variates the global generator yields, by position
NormalStream == <<1, 0, -1, -1, 0, 1, 1, -1, 0, 0, 1, -1, 1, 1, 0, -1, -1>>

\* the states the generator may be in when the first invocation starts
SeedStates == {0, 3}

standard_normal(state) == FInt(NormalStream[(state % Len(NormalStream)) + 1])

\* the generator after count variates have been drawn
Advance(state, count) == (state + count) % Len(NormalStream)

Matrix(a, b, c) ==
    [t \in Tickers |-> [u \in Tickers |->
        IF t # u THEN b ELSE IF t = Columns[1] THEN a ELSE c]]

SimVariances == {FInt(-1), FInt(0), FInt(1), FInt(4)}

\* diagonal matrices and matrices [[a, b], [b, a]], PSD or not, whose
\* singular values have rational roots
SimCovMatrices ==
    {Matrix(a, FInt(0), c) : a \in SimVariances, c \in SimVariances}
    \cup {Matrix(FInt(p[1]), FInt(p[2]), FInt(p[1])) :
            p \in {<<0, 2>>, <<1, 1>>, <<1, -1>>, <<5, 3>>, <<3, 5>>, <<3, -5>>}}

SimMeanVectors == {Vec(FInt(0), FInt(0)), Vec(FInt(1), FInt(0))}

SimWeights == {Vec(FInt(1), FInt(0)), Vec(FNum(1, 2), FNum(1, 2))}

SimInitialValues == {FInt(1), FInt(2)}

\* sqrt(s)[:, None] * v for the singular value decomposition u, s, v of cov:
\* the singular values are the absolute eigenvalues, so a matrix that is not
\* PSD is factored like the matrix with the negative eigenvalues negated
SvdFactor(cov) ==
    LET a == cov[Columns[1]][Columns[1]]
        b == cov[Columns[1]][Columns[2]]
        c == cov[Columns[2]][Columns[2]]
    IN  IF b = FInt(0)
        THEN <<Vec(FSqrt(FAbs(a)), FInt(0)), Vec(FInt(0), FSqrt(FAbs(c)))>>
        ELSE <<VecScale(FSqrt(FDiv(FAbs(FAdd(a, b)), FInt(2))), Vec(FInt(1), FInt(1))),
               VecScale(FSqrt(FDiv(FAbs(FSub(a, b)), FInt(2))), Vec(FInt(1), FInt(-1)))>>

\* np.random.multivariate_normal(mean, cov, size) with the global generator
\* in the given state: size samples mean + z @ factor. A covariance that is
\* not PSD only triggers a RuntimeWarning (check_valid defaults to 'warn').
multivariate_normal(state, mean, cov, size) ==
    LET factor == SvdFactor(cov)
        N      == Len(Columns)
    IN  [day \in 1..size |->
            LET z1 == standard_normal(state + (day - 1) * N)
                z2 == standard_normal(state + (day - 1) * N + 1)
            IN  VecAdd(mean, VecAdd(VecScale(z1, factor[1]), VecScale(z2, factor[2])))]

simulate_daily_returns(state, mean, cov, w, size) ==
    LET samples == multivariate_normal(state, mean, cov, size)
    IN  [day \in 1..size |-> Dot(samples[day], w)]

\* the inner loop: new_value = portfolio_path[-1] * (1 + return of the day)
RECURSIVE PathValues(_, _, _)
PathValues(portfolio_path, returns, day) ==
    IF day > Len(returns) THEN portfolio_path
    ELSE PathValues(Append(portfolio_path,
                           FMul(portfolio_path[Len(portfolio_path)],
                                FAdd(FInt(1), returns[day]))),
                    returns, day + 1)

\* the horizons a caller may want: the default of simulate_daily_returns
\* (size) and a longer one
HorizonRequests == {SizeDays, SizeDays + 1}

\* an invocation: its arguments initial_value and num_simulations, its local
\* portfolio_paths, and the horizon its caller wants, for which
\* simulate_portfolio_paths has no parameter
SimCallStates ==
    [pc : {"loop"}, initial_value : SimInitialValues,
     num_simulations : 1..MaxSimulations, portfolio_paths : {<<>>},
     horizon_days : HorizonRequests]

\* one iteration of the loop of simulate_portfolio_paths in invocation i:
\* the samples are drawn from the shared generator, which moves on
SimulatePath(i) ==
    /\ i \in DOMAIN sim_calls
    /\ sim_calls[i].pc = "loop"
    /\ Len(sim_calls[i].portfolio_paths) < sim_calls[i].num_simulations
    /\ LET simulated_daily_returns ==
               simulate_daily_returns(rng_state, mean_returns, cov_matrix, weights, SizeDays)
           portfolio_path ==
               PathValues(<<sim_calls[i].initial_value>>, simulated_daily_returns, 1)
       IN  sim_calls' = [sim_calls EXCEPT ![i].portfolio_paths = Append(@, portfolio_path)]
    /\ rng_state' = Advance(rng_state, SizeDays * Len(Columns))
    /\ UNCHANGED <<mean_returns, cov_matrix, analysisVars, apiVars, regimeVars, riskVars, metricsVars, sharpeVars,
                   frontierVars>>

\* the loop of invocation i is over: return portfolio_paths
SimulateReturn(i) ==
    /\ i \in DOMAIN sim_calls
    /\ sim_calls[i].pc = "loop"
    /\ Len(sim_calls[i].portfolio_paths) = sim_calls[i].num_simulations
    /\ sim_calls' = [sim_calls EXCEPT ![i].pc = "returned"]
    /\ UNCHANGED <<mean_returns, cov_matrix, analysisVars, apiVars, regimeVars, riskVars, metricsVars, sharpeVars,
                   rng_state, frontierVars>>

-----------------------------------------------------------------------------
(* calculate_efficient_frontier *)

MaxPoints == 3

\* mean_returns.min() and mean_returns.max()
min_return(mean) ==
    IF FLt(mean[Columns[2]], mean[Columns[1]]) THEN mean[Columns[2]] ELSE mean[Columns[1]]

max_return(mean) ==
    IF FGt(mean[Columns[2]], mean[Columns[1]]) THEN mean[Columns[2]] ELSE mean[Columns[1]]

\* np.linspace(start, stop, num): num evenly spaced values, the last one stop
linspace(start, stop, num) ==
    [i \in 1..num |->
        IF i = 1 THEN start
        ELSE IF i = num THEN stop
        ELSE FAdd(start, FMul(FInt(i - 1), FDiv(FSub(stop, start), FInt(num - 1))))]

target_returns(mean, num) == linspace(min_return(mean), max_return(mean), num)

\* the optimal weights of one target: sum(w) = 1, w >= 0, mean @ w = target
FrontierSolutions(mean, cov, target) ==
    LET m1 == mean[Columns[1]]
        m2 == mean[Columns[2]]
    IN  IF m1 = m2
        THEN SegmentMinimisers(cov, Vec(FInt(1), FInt(0)), Vec(FInt(-1), FInt(1)),
                               FInt(1), FInt(1))
        ELSE LET w1 == FDiv(FSub(target, m2), FSub(m1, m2))
             IN  {Vec(w1, FSub(FInt(1), w1))}

\* problem.status after problem.solve(solver=cp.OSQP, max_iter=5000,
\* time_limit=10): every target of the grid is feasible
FrontierStatuses == {"optimal", "optimal_inaccurate", "user_limit"}

\* problem.status not in ["optimal", "optimal_inaccurate"] skips the target
SolveAccepted(status) == status \in {"optimal", "optimal_inaccurate"}

\* a faulty variant: the new point is put in front of the list
AppendPoint_front(frontier, point) == <<point>> \o frontier

\* efficient_frontier.append({...})
AppendPoint(frontier, point) == Append(frontier, point)

FrontierPoint(w, mean, cov) ==
    LET metrics == calculate_portfolio_metrics(w, mean, cov)
    IN  [return     |-> metrics.annualized_return,
         volatility |-> metrics.annualized_volatility,
         weights    |-> w]

NoFrontier == [status |-> "none"]

\* cp.quad_form(weights, cov_matrix.values) accepts a square matrix with as
\* many rows as weights has entries, and weights has len(mean_returns) entries
DimensionsAgree(mean, cov) ==
    IsSquareShape(cov) /\ Cardinality(DOMAIN mean) = Shape(cov)[1]

\* the first iteration of the loop with a mean vector of another length:
\* cp.quad_form raises Exception("Invalid dimensions for arguments.")
FrontierDimensionError ==
    /\ frontier_result.status = "none"
    /\ target_index <= num_points
    /\ ~DimensionsAgree(mean_returns, cov_matrix)
    /\ frontier_result' =
          [status |-> "raised", error |-> [type |-> "Exception", raised_in |-> "cvxpy"]]
    /\ UNCHANGED <<mean_returns, cov_matrix, analysisVars, apiVars, regimeVars, riskVars, metricsVars,
                   sharpeVars, simVars, num_points, target_index, solve_statuses,
                   efficient_frontier, failed_points>>

\* one iteration of the loop over target_returns: solve, then skip or append
FrontierSolve ==
    /\ frontier_result.status = "none"
    /\ target_index <= num_points
    /\ DimensionsAgree(mean_returns, cov_matrix)
    /\ LET target_return == target_returns(mean_returns, num_points)[target_index]
       IN  \E status \in FrontierStatuses :
           \E w \in FrontierSolutions(mean_returns, cov_matrix, target_return) :
               /\ solve_statuses' = Append(solve_statuses, status)
               /\ IF ~SolveAccepted(status)
                  THEN /\ failed_points' = failed_points + 1
                       /\ UNCHANGED efficient_frontier
                  ELSE /\ efficient_frontier' =
                              AppendPoint(efficient_frontier,
                                          FrontierPoint(w, mean_returns, cov_matrix))
                       /\ UNCHANGED failed_points
    /\ target_index' = target_index + 1
    /\ UNCHANGED <<mean_returns, cov_matrix, analysisVars, apiVars, regimeVars, riskVars, metricsVars, sharpeVars,
                   simVars, num_points, frontier_result>>

\* after the loop: ValueError when the list is empty (the message counts the
\* failed points only when there are some), the list otherwise
FrontierFinish ==
    /\ frontier_result.status = "none"
    /\ target_index > num_points
    /\ frontier_result' =
          IF efficient_frontier = <<>>
          THEN [status |-> "raised",
                error  |-> [type |-> "ValueError",
                            reports_failed |-> failed_points > 0,
                            failed_points |-> failed_points,
                            num_points |-> num_points]]
          ELSE [status |-> "returned", points |-> efficient_frontier]
    /\ UNCHANGED <<mean_returns, cov_matrix, analysisVars, apiVars, regimeVars, riskVars, metricsVars, sharpeVars,
                   simVars, num_points, target_index, solve_statuses,
                   efficient_frontier, failed_points>>

-----------------------------------------------------------------------------
(* np.linalg.eigh, analyze_portfolio_correlation and                        *)
(* analyze_portfolio_risk_factors                                           *)

IsSquareNumber(n) == RootBetween(n, 0, n) * RootBetween(n, 0, n) = n

\* (a - c)^2 + 4 b^2 of a 2 x 2 matrix: the eigenvalues of its symmetric
\* part are (a + c)/2 -/+ half the root of this number
Discriminant(cov) ==
    LET a == cov[Columns[1]][Columns[1]]
        b == cov[Columns[2]][Columns[1]]
        c == cov[Columns[2]][Columns[2]]
    IN  FAdd(FMul(FSub(a, c), FSub(a, c)), FMul(FInt(4), FMul(b, b)))

\* the eigenvalues are rationals (the arithmetic of the model is exact)
HasRationalSpectrum(cov) ==
    IsSquareNumber(Discriminant(cov).n) /\ IsSquareNumber(Discriminant(cov).d)

\* np.linalg.eigh of a 2 x 2 array: it reads the lower triangle, returns the
\* eigenvalues in ascending order and, as columns, their eigenvectors.  An
\* eigenvector is given by its direction (b, lambda - a); the unit norm and
\* the sign LAPACK gives it cancel in the loadings, which are ratios of
\* absolute values.  A diagonal matrix has the unit vectors as eigenvectors.
eigh(cov) ==
    LET a == cov[Columns[1]][Columns[1]]
        b == cov[Columns[2]][Columns[1]]
        c == cov[Columns[2]][Columns[2]]
        half == FDiv(FAdd(a, c), FInt(2))
        root == FDiv(FSqrt(Discriminant(cov)), FInt(2))
        low  == FSub(half, root)
        high == FAdd(half, root)
        e1 == <<FInt(1), FInt(0)>>
        e2 == <<FInt(0), FInt(1)>>
    IN  [eigenvalues  |-> <<low, high>>,
         eigenvectors |->
            IF b = FInt(0)
            THEN (IF FLe(a, c) THEN <<e1, e2>> ELSE <<e2, e1>>)
            ELSE <<<<b, FSub(low, a)>>, <<b, FSub(high, a)>>>>]

RECURSIVE FMaxSeq(_)
FMaxSeq(seq) ==
    IF Len(seq) = 1 THEN seq[1]
    ELSE LET m == FMaxSeq(Tail(seq)) IN IF FGe(seq[1], m) THEN seq[1] ELSE m

\* a faulty variant: the condition number of a singular matrix is 0
condition_number_zero(min_eigenvalue, max_eigenvalue) ==
    IF FGt(min_eigenvalue, FInt(0)) THEN FDiv(max_eigenvalue, min_eigenvalue) ELSE FInt(0)

\* max_eigenvalue / min_eigenvalue if min_eigenvalue > 0 else np.inf
condition_number(min_eigenvalue, max_eigenvalue) ==
    IF FGt(min_eigenvalue, FInt(0)) THEN FDiv(max_eigenvalue, min_eigenvalue) ELSE Inf(1)

\* tolerance = 1e-8, in the unit 2e-8 of the covariances
tolerance == FNum(1, 2)

\* the report of analyze_portfolio_correlation for a square, non-empty matrix
correlation_report(cov) ==
    LET eigenvalues == eigh(cov).eigenvalues
        min_eigenvalue == FMinSeq(eigenvalues)
        max_eigenvalue == FMaxSeq(eigenvalues)
    IN  [status              |-> "returned",
         condition_number    |-> condition_number(min_eigenvalue, max_eigenvalue),
         min_eigenvalue      |-> min_eigenvalue,
         max_eigenvalue      |-> max_eigenvalue,
         is_psd              |-> FGe(min_eigenvalue, FNeg(tolerance)),
         correlation_matrix  |-> correlation_matrix(cov),
         stdev_outer_product |-> stdev_outer_product(cov)]

Raised(type, origin) == [status |-> "raised", error |-> [type |-> type, raised_in |-> origin]]

\* the outcomes of analyze_portfolio_correlation: np.linalg.eigh raises
\* LinAlgError for an array that is not square; an empty array either fails
\* there too or gives no eigenvalue, and min() of an empty sequence raises
\* ValueError (which of the two depends on the numpy build)
analyze_portfolio_correlation(cov) ==
    IF ~IsSquareShape(cov) THEN {Raised("LinAlgError", "numpy")}
    ELSE IF Shape(cov) = <<0, 0>>
    THEN {Raised("LinAlgError", "numpy"), Raised("ValueError", "builtins")}
    ELSE {correlation_report(cov)}

NoAnalysis == [status |-> "none"]

AnalyzeCorrelation ==
    /\ correlation_result = NoAnalysis
    /\ correlation_result' \in analyze_portfolio_correlation(cov_matrix)
    /\ UNCHANGED <<mean_returns, cov_matrix, regimeVars, riskVars, metricsVars, sharpeVars,
                   simVars, frontierVars, risk_factors_result, selectionVars, apiVars>>

\* np.argsort(eigenvalues)[::-1] for two values
argsort_descending(values) ==
    IF FLe(values[1], values[2]) THEN <<2, 1>> ELSE <<1, 2>>

\* pct_loadings: the absolute loadings of one eigenvector, as percentages
pct_loadings(pc_vector) ==
    LET abs_loadings == [i \in 1..Len(pc_vector) |-> FAbs(pc_vector[i])]
        total == FSum(abs_loadings)
    IN  [i \in 1..Len(pc_vector) |-> FMul(FDiv(abs_loadings[i], total), FInt(100))]

\* sorted(..., key=pct, reverse=True) keeps the order of equal keys
RECURSIVE InsertByPct(_, _)
InsertByPct(x, seq) ==
    IF seq = <<>> THEN <<x>>
    ELSE IF FGe(seq[1].pct, x.pct) THEN <<seq[1]>> \o InsertByPct(x, Tail(seq))
    ELSE <<x>> \o seq

RECURSIVE SortByPct(_)
SortByPct(seq) ==
    IF seq = <<>> THEN <<>>
    ELSE InsertByPct(seq[Len(seq)], SortByPct(SubSeq(seq, 1, Len(seq) - 1)))

\* cov_matrix.columns of a portfolio of more than two assets
FactorColumns == Columns \o <<"CCC", "DDD", "EEE">>

\* a faulty variant: a threshold of 5 percent
threshold_five == FInt(5)

\* threshold = 10: percent threshold for asset contribution
threshold == FInt(10)

\* top 2, or all assets above the threshold when there are more than two of
\* them and the eigenvalue is not small (< 5.0)
selected_assets(pc_vector, eigval) ==
    LET pct == pct_loadings(pc_vector)
        pc_assets == SortByPct([i \in 1..Len(pct) |->
                                   [asset |-> FactorColumns[i], pct |-> pct[i]]])
        top_2 == SubSeq(pc_assets, 1, IF Len(pc_assets) < 2 THEN Len(pc_assets) ELSE 2)
        eigval_is_small == FLt(eigval, FInt(5))
        IsAbove(i) == FGe(i.pct, threshold)
        above_threshold == SelectSeq(pc_assets, IsAbove)
    IN  IF Len(above_threshold) > 2 /\ ~eigval_is_small THEN above_threshold ELSE top_2

NoSelection == <<[asset |-> "none", pct |-> NaN]>>

\* the body of the loop for one dominant component: its selected_assets
SelectAssets ==
    /\ pc_selected = NoSelection
    /\ pc_loadings # <<>>
    /\ pc_selected' =
          selected_assets([i \in DOMAIN pc_loadings |-> FInt(pc_loadings[i])], pc_eigval)
    /\ UNCHANGED <<mean_returns, cov_matrix, regimeVars, riskVars, metricsVars, sharpeVars,
                   simVars, frontierVars, correlation_result, risk_factors_result,
                   pc_loadings, pc_eigval, apiVars>>

\* the most assets of a portfolio
MaxLoadings == 4

\* loadings of an eigenvector, up to a common positive factor
LoadingValues == {-1, 0, 1, 2, 8}

LoadingVectors ==
    {v \in UNION {[1..n -> LoadingValues] : n \in 1..MaxLoadings} :
        \E i \in DOMAIN v : v[i] # 0}

\* scaled eigenvalues of dominant components, below, at and above 5.0
DominantEigenvalues == {FInt(1), FNum(9, 2), FInt(5), FInt(6)}

\* if eigval < 1.0: break
EndsScan(eigval) == FLt(eigval, FInt(1))

\* the loop over the principal components, from pc_idx on
RECURSIVE DominantLoop(_, _, _, _)
DominantLoop(pc_idx, eigenvalues, eigenvectors, acc) ==
    IF pc_idx > Len(eigenvalues) \/ EndsScan(eigenvalues[pc_idx]) THEN acc
    ELSE DominantLoop(pc_idx + 1, eigenvalues, eigenvectors,
            [dominant_factor_loadings |->
                 Append(acc.dominant_factor_loadings,
                        selected_assets(eigenvectors[pc_idx], eigenvalues[pc_idx])),
             explained_variance_dominant |->
                 FAdd(acc.explained_variance_dominant,
                      FMul(FDiv(eigenvalues[pc_idx], FSum(eigenvalues)), FInt(100)))])

\* the report of analyze_portfolio_risk_factors for a square, non-empty
\* matrix; dominant_factor_loadings maps 1..m to the selected assets
risk_factors_report(cov) ==
    LET scaled == [i \in 1..2 |-> FMul(eigh(cov).eigenvalues[i], FInt(10000))]
        idx == argsort_descending(scaled)
        eigenvalues == [k \in 1..2 |-> scaled[idx[k]]]
        eigenvectors == [k \in 1..2 |-> eigh(cov).eigenvectors[idx[k]]]
        loop == DominantLoop(1, eigenvalues, eigenvectors,
                             [dominant_factor_loadings |-> <<>>,
                              explained_variance_dominant |-> FInt(0)])
    IN  [status                      |-> "returned",
         eigenvalues                 |-> eigenvalues,
         dominant_factor_loadings    |-> loop.dominant_factor_loadings,
         explained_variance_dominant |-> loop.explained_variance_dominant]

\* the outcomes of analyze_portfolio_risk_factors: LinAlgError from
\* np.linalg.eigh for an array that is not square; an empty array fails there
\* too or has no component to report
analyze_portfolio_risk_factors(cov) ==
    IF ~IsSquareShape(cov) THEN {Raised("LinAlgError", "numpy")}
    ELSE IF Shape(cov) = <<0, 0>>
    THEN {Raised("LinAlgError", "numpy"),
          [status |-> "returned", eigenvalues |-> <<>>, dominant_factor_loadings |-> <<>>,
           explained_variance_dominant |-> FInt(0)]}
    ELSE {risk_factors_report(cov)}

AnalyzeRiskFactors ==
    /\ risk_factors_result = NoAnalysis
    /\ risk_factors_result' \in analyze_portfolio_risk_factors(cov_matrix)
    /\ UNCHANGED <<mean_returns, cov_matrix, regimeVars, riskVars, metricsVars, sharpeVars,
                   simVars, frontierVars, correlation_result, selectionVars, apiVars>>

\* the matrices of the analyses, in the unit of the covariances: those of
\* CovMatrices with rational eigenvalues, and diagonal matrices with an
\* eigenvalue below, at and above the PSD tolerance
SpectrumMatrices ==
    {m \in CovMatrices : HasRationalSpectrum(m)}
    \cup {Matrix(v, FInt(0), FInt(1)) : v \in {FInt(-1), FNum(-1, 2), FNum(-1, 4)}}

\* the same matrices as daily covariances of returns in plain numbers, where
\* eigenvalues * 10000 falls below, on and above 1.0 and 5.0
FactorScales == {FNum(1, 10000), FNum(1, 40000)}

FactorMatrices ==
    {[t \in Tickers |-> [u \in Tickers |-> FMul(m[t][u], s)]] :
        m \in {c \in CovMatrices : HasRationalSpectrum(c)}, s \in FactorScales}

\* frames that are not square, and the empty frame
MalformedFrames ==
    {<<>>,
     [t \in Tickers |-> [u \in {Columns[1]} |-> FInt(1)]],
     [t \in {Columns[1]} |-> [u \in Tickers |-> FInt(1)]]}

AnalysisFrames == SpectrumMatrices \cup FactorMatrices \cup MalformedFrames

\* mean vectors of one and of three assets
MismatchedMeanVectors ==
    [{Columns[1]} -> OptMeanValues] \cup [Tickers \cup {"CCC"} -> OptMeanValues]

-----------------------------------------------------------------------------
(* validate_portfolio (core/api/api_utils.py)                               *)
(* A weight or factor is a number of the exact arithmetic, a str, or None.  *)
(* A date is a string that strptime parses to a day (today is day 0) or     *)
(* rejects.  The price fetch is an input: it gives prices or raises         *)
(* InvalidTickersException.                                                 *)

NoneValue == [k |-> "none", n |-> 0, d |-> 1]

StrValue == [k |-> "str", n |-> 0, d |-> 1]

\* isinstance(w, (int, float))
IsNumberValue(w) == w.k \in {"num", "nan", "inf"}

\* not t or not isinstance(t, str) or not t.strip()
IsBlankTicker(t) == t \in {"", " "}

BadDate == [parses |-> FALSE, day |-> 0]

DateOn(day) == [parses |-> TRUE, day |-> day]

NotGiven == [given |-> FALSE, factors |-> <<>>]

Given(factors) == [given |-> TRUE, factors |-> factors]

\* dict.get(key): None for a missing key
DictGet(dict, key) == IF key \in DOMAIN dict THEN dict[key] ELSE NoneValue

\* len(set(tickers)) != len(tickers)
HasDuplicates(tickers) ==
    Cardinality({tickers[i] : i \in DOMAIN tickers}) # Len(tickers)

\* step 5: the two dates
DateErrors(start_date, end_date) ==
    IF ~start_date.parses \/ ~end_date.parses
    THEN <<"Dates must be in YYYY-MM-DD format.">>
    ELSE (IF start_date.day > end_date.day
          THEN <<"Start date must be before or equal to end date.">> ELSE <<>>)
         \o (IF start_date.day > 0
             THEN <<"Start date cannot be in the future.">> ELSE <<>>)
         \o (IF end_date.day > 0
             THEN <<"End date cannot be in the future.">> ELSE <<>>)

\* step 6, the loop over regime_factors.items(): the entries are visited in
\* the order of keys
RECURSIVE FactorErrors(_, _)
FactorErrors(factors, keys) ==
    IF keys = <<>> THEN <<>>
    ELSE LET ticker == Head(keys)
             rest == FactorErrors(factors, Tail(keys))
         IN  IF ticker \notin DOMAIN factors \/ ticker = CMP THEN rest
             ELSE LET mean_factor == factors[ticker].mean_factor
                      vol_factor  == factors[ticker].vol_factor
                  IN  (IF mean_factor = NoneValue
                       THEN <<"Mean factor is required.">> ELSE <<>>)
                      \o (IF vol_factor = NoneValue
                          THEN <<"Vol factor is required.">>
                          ELSE IF FLe(vol_factor, FInt(0))
                          THEN <<"Vol factor must be positive.">> ELSE <<>>)
                      \o rest

\* step 6
RegimeFactorErrors(factors) ==
    LET correlation_move_pct == DictGet(factors, CMP)
    IN  (IF correlation_move_pct = NoneValue
         THEN <<"Correlation move is required when using power user mode.">>
         ELSE IF FGe(FAbs(correlation_move_pct), FInt(1))
         THEN <<"Correlation move must be between -0.99 and 0.99.">> ELSE <<>>)
        \o FactorErrors(factors, Columns)

\* abs(sum(weights) - 1.0) > 0.0001
WeightSumError(weight_list) ==
    IF FGt(FAbs(FSub(FSum(weight_list), FInt(1))), FNum(1, 10000))
    THEN <<"Weights must sum to 100%.">> ELSE <<>>

\* steps 1 to 4; w >= 0, w > 0 and sum(weights) are evaluated on every
\* weight, and raise TypeError as soon as one of them is not a number
BasicErrors(tickers, weight_list) ==
    (IF Len(tickers) # Len(weight_list)
     THEN <<"Tickers and weights must have the same length.">> ELSE <<>>)
    \o (IF \E i \in DOMAIN tickers : IsBlankTicker(tickers[i])
        THEN <<"All tickers must be non-empty strings.">> ELSE <<>>)
    \o (IF \E i \in DOMAIN weight_list : ~FGe(weight_list[i], FInt(0))
        THEN <<"All weights must be non-negative.">> ELSE <<>>)
    \o (IF \E i \in DOMAIN weight_list : ~FGt(weight_list[i], FInt(0))
        THEN <<"All weights must be greater than zero.">> ELSE <<>>)
    \o WeightSumError(weight_list)
    \o (IF HasDuplicates(tickers)
        THEN <<"Duplicate tickers are not allowed.">> ELSE <<>>)

validate_portfolio(tickers, weight_list, regime_factors, start_date, end_date, fetch) ==
    IF \E i \in DOMAIN weight_list : ~IsNumberValue(weight_list[i])
    THEN [status |-> "raised", error |-> "TypeError", success |-> FALSE, errors |-> <<>>]
    ELSE LET basic == BasicErrors(tickers, weight_list)
             dated == IF basic = <<>> THEN DateErrors(start_date, end_date) ELSE basic
             regime == IF regime_factors.given /\ dated = <<>>
                       THEN RegimeFactorErrors(regime_factors.factors) ELSE dated
             errors == IF regime = <<>> /\ fetch = "InvalidTickersException"
                       THEN <<"Could not fetch valid price data for tickers.">>
                       ELSE regime
         IN  [status  |-> "returned", error |-> "none",
              success |-> errors = <<>>, errors |-> errors]

NoValidation == [status |-> "none", error |-> "none", success |-> FALSE, errors |-> <<>>]

\* one call of validate_portfolio
ValidatePortfolio ==
    /\ validation_result = NoValidation
    /\ validation_request # <<>>
    /\ validation_result' =
          validate_portfolio(validation_request.tickers, validation_request.weights,
                             validation_request.regime_factors,
                             validation_request.start_date, validation_request.end_date,
                             validation_request.fetch)
    /\ UNCHANGED <<engineVars, validation_request, requestVars, streamVars, broadcastVars>>

\* the longest list of tickers and of weights
MaxAssets == 2

TickerValues == {"AAA", "BBB", "", " "}

WeightValues ==
    {FInt(0), FNum(-1, 2), FNum(1, 2), FInt(1), FNum(5001, 10000), FNum(2501, 5000), StrValue}

ListsUpTo(S, n) == UNION {[1..k -> S] : k \in 0..n}

DateValues == {BadDate, DateOn(-1), DateOn(0), DateOn(1)}

FetchOutcomes == {"prices", "InvalidTickersException"}

\* factor entries with a missing or a non-positive factor, and complete ones
FactorEntries ==
    {[mean_factor |-> FInt(1), vol_factor |-> FInt(1)],
     [mean_factor |-> FNum(1, 2), vol_factor |-> FInt(2)],
     [mean_factor |-> FInt(1), vol_factor |-> FInt(0)],
     [mean_factor |-> NoneValue, vol_factor |-> FInt(1)],
     [mean_factor |-> FInt(1), vol_factor |-> NoneValue]}

CorrelationMoveValues == {FInt(-1), FNum(-1, 2), FInt(0), FNum(1, 2), FInt(1)}

\* regime_factors of a request: entries for some of the tickers, with or
\* without correlation_move_pct
RequestFactorDicts ==
    UNION {
        {[key \in S \cup {CMP} |-> IF key = CMP THEN cm ELSE f[key]] :
            f \in [S -> FactorEntries], cm \in CorrelationMoveValues}
        \cup [S -> FactorEntries] :
        S \in SUBSET Tickers}

ValidationRequest(tickers, weight_list, regime_factors, start_date, end_date, fetch) ==
    [tickers |-> tickers, weights |-> weight_list, regime_factors |-> regime_factors,
     start_date |-> start_date, end_date |-> end_date, fetch |-> fetch]

\* requests that vary the tickers, weights and dates, and requests of the
\* two assets in equal weights that vary the regime factors
ValidationRequests ==
    {ValidationRequest(t, w, NotGiven, s, e, f) :
        t \in ListsUpTo(TickerValues, MaxAssets), w \in ListsUpTo(WeightValues, MaxAssets),
        s \in DateValues, e \in DateValues, f \in FetchOutcomes}
    \cup
    {ValidationRequest(Columns, [i \in 1..Len(Columns) |-> FNum(1, Len(Columns))], Given(d),
                       s, DateOn(0), f) :
        d \in RequestFactorDicts, s \in {DateOn(-1), DateOn(1)}, f \in FetchOutcomes}

-----------------------------------------------------------------------------
(* run_portfolio_simulation_api (simulation/api/api_utils.py) and           *)
(* optimize_portfolio_api (optimization/api/api_utils.py)                   *)
(* A str is a sequence of characters.  The entry point runs statement by    *)
(* statement; api_calls records the collaborators it calls.                 *)

historical == <<"h", "i", "s", "t", "o", "r", "i", "c", "a", "l">>

fiat_debasement ==
    <<"f", "i", "a", "t", "_", "d", "e", "b", "a", "s", "e", "m", "e", "n", "t">>

geopolitical_crisis ==
    <<"g", "e", "o", "p", "o", "l", "i", "t", "i", "c", "a", "l", "_",
      "c", "r", "i", "s", "i", "s">>

custom == <<"c", "u", "s", "t", "o", "m">>

ascii_uppercase ==
    <<"A", "B", "C", "D", "E", "F", "G", "H", "I", "J", "K", "L", "M",
      "N", "O", "P", "Q", "R", "S", "T", "U", "V", "W", "X", "Y", "Z">>

ascii_lowercase ==
    <<"a", "b", "c", "d", "e", "f", "g", "h", "i", "j", "k", "l", "m",
      "n", "o", "p", "q", "r", "s", "t", "u", "v", "w", "x", "y", "z">>

\* the characters str.strip() removes
whitespace == {" ", "\t", "\n"}

RECURSIVE lstrip(_)
lstrip(s) == IF s # <<>> /\ Head(s) \in whitespace THEN lstrip(Tail(s)) ELSE s

RECURSIVE rstrip(_)
rstrip(s) ==
    IF s # <<>> /\ s[Len(s)] \in whitespace THEN rstrip(SubSeq(s, 1, Len(s) - 1)) ELSE s

\* str.strip()
strip(s) == rstrip(lstrip(s))

\* str.lower()
lower(s) ==
    [i \in DOMAIN s |->
        IF \E k \in DOMAIN ascii_uppercase : ascii_uppercase[k] = s[i]
        THEN ascii_lowercase[CHOOSE k \in DOMAIN ascii_uppercase : ascii_uppercase[k] = s[i]]
        ELSE s[i]]

\* str.upper()
upper(s) ==
    [i \in DOMAIN s |->
        IF \E k \in DOMAIN ascii_lowercase : ascii_lowercase[k] = s[i]
        THEN ascii_uppercase[CHOOSE k \in DOMAIN ascii_lowercase : ascii_lowercase[k] = s[i]]
        ELSE s[i]]

\* str.replace(old, new) for single characters
RECURSIVE replace(_, _, _)
replace(s, old, new) ==
    IF s = <<>> THEN <<>>
    ELSE <<IF Head(s) = old THEN new ELSE Head(s)>> \o replace(Tail(s), old, new)

\* a faulty variant: "default" is a key of regime_map as well
regime_keys_with_default ==
    {historical, fiat_debasement, geopolitical_crisis, custom,
     <<"d", "e", "f", "a", "u", "l", "t">>}

\* the keys of regime_map
regime_keys == {historical, fiat_debasement, geopolitical_crisis, custom}

\* the module-level regime tables of core/portfolio.py: factors for every
\* asset of the portfolio and correlation_move_pct (-0.15 and +0.1)
FIAT_DEBASEMENT_REGIME ==
    [key \in Tickers \cup {CMP} |->
        IF key = CMP THEN FNum(-3, 20)
        ELSE [mean_factor |-> FInt(2), vol_factor |-> FInt(2)]]

GEOPOLITICAL_CRISIS_REGIME ==
    [key \in Tickers \cup {CMP} |->
        IF key = CMP THEN FNum(1, 10)
        ELSE [mean_factor |-> FNum(1, 2), vol_factor |-> FInt(2)]]

\* regime_map: key -> (regime_name, regime_dict)
regime_map(regime_factors) ==
    [key \in regime_keys |->
        IF key = historical THEN [regime_name |-> "Historical", regime_dict |-> NotGiven]
        ELSE IF key = fiat_debasement
        THEN [regime_name |-> "Fiat Debasement", regime_dict |-> Given(FIAT_DEBASEMENT_REGIME)]
        ELSE IF key = geopolitical_crisis
        THEN [regime_name |-> "Geopolitical Crisis",
              regime_dict |-> Given(GEOPOLITICAL_CRISIS_REGIME)]
        ELSE [regime_name |-> "Custom", regime_dict |-> regime_factors]]

HTTPException(status_code, detail) == [status_code |-> status_code, detail |-> detail]

NoResponse == [status_code |-> 0, detail |-> "none"]

\* regime_key = regime.strip().lower().replace(" ", "_"), the lookup in
\* regime_map and HTTPException(400, "Invalid regime name: ...")
resolve_regime(regime, regime_factors) ==
    LET regime_key == replace(lower(strip(regime)), " ", "_") IN
    IF regime_key \notin DOMAIN regime_map(regime_factors)
    THEN [status |-> "raised", error |-> HTTPException(400, "Invalid regime name"),
          regime_key |-> regime_key, regime_dict |-> NotGiven]
    ELSE [status |-> "returned", error |-> NoResponse,
          regime_key |-> regime_key,
          regime_dict |-> regime_map(regime_factors)[regime_key].regime_dict]

ApiUnchanged ==
    UNCHANGED <<engineVars, validationVars, streamVars, broadcastVars, api_request>>

\* the first statements of both entry points
ResolveRegime ==
    /\ api_pc = "resolve_regime"
    /\ LET resolved == resolve_regime(api_request.regime, api_request.regime_factors)
       IN  IF resolved.status = "raised"
           THEN api_pc' = "done" /\ api_response' = resolved.error
           ELSE api_pc' = "get_cached_prices" /\ api_response' = api_response
    /\ UNCHANGED api_calls
    /\ ApiUnchanged

\* get_cached_prices in its try block (prepare_market_data for the optimiser)
FetchPrices ==
    /\ api_pc = "get_cached_prices"
    /\ api_calls' = Append(api_calls, "get_cached_prices")
    /\ IF api_request.fetch = "InvalidTickersException"
       THEN api_pc' = "done" /\ api_response' = HTTPException(400, "InvalidTickersException")
       ELSE api_pc' = "modify_portfolio_for_regime" /\ api_response' = api_response
    /\ ApiUnchanged

\* the branch on regime_key == "historical"; an exception of
\* modify_portfolio_for_regime is not handled and becomes a 500
TransformRegime ==
    /\ api_pc = "modify_portfolio_for_regime"
    /\ LET resolved == resolve_regime(api_request.regime, api_request.regime_factors)
       IN  IF resolved.regime_key = historical
           THEN /\ api_calls' = api_calls
                /\ api_pc' = "engine"
                /\ api_response' = api_response
           ELSE /\ api_calls' = Append(api_calls, "modify_portfolio_for_regime")
                /\ IF ~resolved.regime_dict.given
                   THEN /\ api_pc' = "done"
                        /\ api_response' = HTTPException(500, "AttributeError")
                   ELSE IF modify_portfolio_for_regime(
                               DefaultMean, DefaultCov,
                               resolved.regime_dict.factors).status = "raised"
                   THEN /\ api_pc' = "done"
                        /\ api_response' = HTTPException(500, "KeyError")
                   ELSE /\ api_pc' = "engine"
                        /\ api_response' = api_response
    /\ ApiUnchanged

\* simulate_portfolio_paths and the three charts
RunSimulation ==
    /\ api_pc = "engine"
    /\ api_request.endpoint = "run_portfolio_simulation_api"
    /\ api_calls' = Append(api_calls, "simulate_portfolio_paths")
    /\ api_pc' = "done"
    /\ api_response' = HTTPException(200, "charts")
    /\ ApiUnchanged

\* calculate_efficient_frontier and maximize_sharpe_portfolio in their try block
RunOptimization ==
    /\ api_pc = "engine"
    /\ api_request.endpoint = "optimize_portfolio_api"
    /\ api_calls' = Append(api_calls, "calculate_efficient_frontier")
    /\ api_pc' = "done"
    /\ api_response' =
          IF api_request.optimizer = "Exception"
          THEN HTTPException(500, "Optimization failed")
          ELSE HTTPException(200, "frontier")
    /\ ApiUnchanged

\* regime strings: a name, in some casing, with spaces, tabs or underscores
\* between its words, and with whitespace around it
RegimeWords ==
    {<<historical>>, <<custom>>,
     <<<<"f", "i", "a", "t">>, <<"d", "e", "b", "a", "s", "e", "m", "e", "n", "t">>>>,
     <<<<"g", "e", "o", "p", "o", "l", "i", "t", "i", "c", "a", "l">>,
       <<"c", "r", "i", "s", "i", "s">>>>,
     <<<<"d", "e", "f", "a", "u", "l", "t">>>>,
     <<<<"c", "u", "s", "t", "o", "m", "s">>>>,
     <<<<>>>>}

Separators == {<<"_">>, <<" ">>, <<"\t">>, <<"-">>, <<" ", " ">>}

Paddings == {<<>>, <<" ">>, <<"\t">>, <<" ", "\n">>}

Casings == {"lower", "upper", "title"}

Cased(word, casing) ==
    IF casing = "upper" THEN upper(word)
    ELSE IF casing = "title" /\ word # <<>>
    THEN upper(SubSeq(word, 1, 1)) \o SubSeq(word, 2, Len(word))
    ELSE word

Joined(words, separator, casing) ==
    IF Len(words) = 1 THEN Cased(words[1], casing)
    ELSE Cased(words[1], casing) \o separator \o Cased(words[2], casing)

RegimeStrings ==
    {before \o Joined(words, separator, casing) \o after :
        words \in RegimeWords, separator \in Separators, casing \in Casings,
        before \in Paddings, after \in Paddings}

\* regime_factors of a custom request: none, complete, or for one asset only
ApiRegimeFactors ==
    {NotGiven, Given(FIAT_DEBASEMENT_REGIME),
     Given([key \in {Columns[1], CMP} |-> FIAT_DEBASEMENT_REGIME[key]]),
     Given([key \in {Columns[2], CMP} |-> FIAT_DEBASEMENT_REGIME[key]])}

ApiRequests ==
    [endpoint : {"run_portfolio_simulation_api", "optimize_portfolio_api"},
     regime : RegimeStrings,
     regime_factors : ApiRegimeFactors,
     fetch : FetchOutcomes,
     optimizer : {"solved", "Exception"}]

-----------------------------------------------------------------------------
(* LivePriceStreamer (core/api/api_utils.py)                                *)
(* A websocket is [status, subscribed], a listen task is [status, socket];  *)
(* both are named by their position in yf_sockets and yf_tasks.  The        *)
(* frontend sends ticker lists, sends something that is not a ticker list,  *)
(* or disconnects.                                                          *)

\* how many ticker lists the frontend sends
MaxMessages == 2

\* get_portfolio(): the default tickers
DefaultTickers == Columns

TickerLists ==
    {<<>>, <<"AAA">>, <<"BBB">>, <<"AAA", "BBB">>, <<"BBB", "AAA">>, <<"AAA", "AAA">>}

\* set(tickers)
set(tickers) == {tickers[i] : i \in DOMAIN tickers}

\* a faulty variant: the lists are compared, not the sets
SameSubscription_as_lists(requested, current) == requested = current

\* set(custom_tickers) == set(self.current_tickers)
SameSubscription(requested, current) == set(requested) = set(current)

Event(op, id) == [op |-> op, id |-> id]

NoUpdate ==
    [current_tickers |-> <<>>, yf_sockets |-> <<>>, yf_tasks |-> <<>>,
     yf_websocket |-> 0, yf_task |-> 0, stream_events |-> <<>>]

NoReturn == [status |-> "none", yf_websocket |-> 0, yf_task |-> 0]

\* yf_task.cancel()
cancel(tasks, task) == [tasks EXCEPT ![task].status = "cancelled"]

\* await yf_websocket.close(), also what __aexit__ of the async with does
close(sockets, socket) == [sockets EXCEPT ![socket].status = "closed"]

\* the websocket that "async with yf.AsyncWebSocket(...)" manages: the one
\* it made, whatever the local name yf_websocket is bound to later
ManagedSocket == 1

StreamUnchanged == UNCHANGED <<engineVars, validationVars, requestVars, broadcastVars>>

\* accept(), the async with, the first subscribe and the first listen task
StartStreaming ==
    /\ stream_pc = "start"
    /\ yf_sockets' = <<[status |-> "open", subscribed |-> current_tickers]>>
    /\ yf_tasks' = <<[status |-> "running", socket |-> 1]>>
    /\ yf_websocket' = 1
    /\ yf_task' = 1
    /\ stream_events' = <<Event("create", 1), Event("subscribe", 1), Event("listen", 1)>>
    /\ stream_pc' = "receive_text"
    /\ UNCHANGED <<current_tickers, custom_tickers, stream_received, update_before,
                   update_return>>
    /\ StreamUnchanged

\* the first subscribe raises: __aexit__ closes the managed websocket and
\* the outer except logs the error
StartFails ==
    /\ stream_pc = "start"
    /\ yf_sockets' = <<[status |-> "closed", subscribed |-> <<>>]>>
    /\ stream_events' = <<Event("create", 1), Event("close", 1)>>
    /\ stream_pc' = "returned"
    /\ UNCHANGED <<current_tickers, yf_tasks, yf_websocket, yf_task, custom_tickers,
                   stream_received, update_before, update_return>>
    /\ StreamUnchanged

\* receive_text() and json.loads give a ticker list; _update_subscription is called
ReceiveTickers ==
    /\ stream_pc = "receive_text"
    /\ stream_received < MaxMessages
    /\ \E tickers \in TickerLists : custom_tickers' = tickers
    /\ stream_received' = stream_received + 1
    /\ update_before' =
          [current_tickers |-> current_tickers, yf_sockets |-> yf_sockets,
           yf_tasks |-> yf_tasks, yf_websocket |-> yf_websocket, yf_task |-> yf_task,
           stream_events |-> stream_events]
    /\ update_return' = NoReturn
    /\ stream_pc' = "update_subscription"
    /\ UNCHANGED <<current_tickers, yf_sockets, yf_tasks, yf_websocket, yf_task,
                   stream_events>>
    /\ StreamUnchanged

\* _update_subscription, subscription unchanged
KeepSubscription ==
    /\ stream_pc = "update_subscription"
    /\ SameSubscription(custom_tickers, current_tickers)
    /\ update_return' =
          [status |-> "returned", yf_websocket |-> yf_websocket, yf_task |-> yf_task]
    /\ stream_pc' = "receive_text"
    /\ UNCHANGED <<current_tickers, yf_sockets, yf_tasks, yf_websocket, yf_task,
                   custom_tickers, stream_events, stream_received, update_before>>
    /\ StreamUnchanged

\* _update_subscription: yf_task.cancel() and await yf_websocket.close()
CloseOldSubscription ==
    /\ stream_pc = "update_subscription"
    /\ ~SameSubscription(custom_tickers, current_tickers)
    /\ yf_tasks' = cancel(yf_tasks, yf_task)
    /\ yf_sockets' = close(yf_sockets, yf_websocket)
    /\ stream_events' =
          stream_events \o <<Event("cancel", yf_task), Event("close", yf_websocket)>>
    /\ stream_pc' = "subscribe"
    /\ UNCHANGED <<current_tickers, yf_websocket, yf_task, custom_tickers,
                   stream_received, update_before, update_return>>
    /\ StreamUnchanged

\* _update_subscription: the new websocket, its subscribe, current_tickers,
\* the new listen task and the return to start, which rebinds its locals
OpenNewSubscription ==
    /\ stream_pc = "subscribe"
    /\ LET new_yf_websocket == Len(yf_sockets) + 1
           new_task == Len(yf_tasks) + 1
       IN  /\ yf_sockets' =
                 Append(yf_sockets, [status |-> "open", subscribed |-> custom_tickers])
           /\ current_tickers' = custom_tickers
           /\ yf_tasks' = Append(yf_tasks, [status |-> "running", socket |-> new_yf_websocket])
           /\ stream_events' =
                 stream_events \o <<Event("create", new_yf_websocket),
                                    Event("subscribe", new_yf_websocket),
                                    Event("listen", new_task)>>
           /\ update_return' =
                 [status |-> "returned", yf_websocket |-> new_yf_websocket,
                  yf_task |-> new_task]
           /\ yf_websocket' = new_yf_websocket
           /\ yf_task' = new_task
    /\ stream_pc' = "receive_text"
    /\ UNCHANGED <<custom_tickers, stream_received, update_before>>
    /\ StreamUnchanged

\* _update_subscription: subscribe raises, before or after the connection is
\* made; the exception leaves start through __aexit__ and the outer except
NewSubscriptionFails ==
    /\ stream_pc = "subscribe"
    /\ \E status \in {"unconnected", "open"} :
          yf_sockets' =
              close(Append(yf_sockets, [status |-> status, subscribed |-> <<>>]),
                    ManagedSocket)
    /\ stream_events' =
          stream_events \o <<Event("create", Len(yf_sockets) + 1),
                             Event("close", ManagedSocket)>>
    /\ update_return' = [status |-> "raised", yf_websocket |-> 0, yf_task |-> 0]
    /\ stream_pc' = "returned"
    /\ UNCHANGED <<current_tickers, yf_tasks, yf_websocket, yf_task, custom_tickers,
                   stream_received, update_before>>
    /\ StreamUnchanged

\* WebSocketDisconnect: break, yf_task.cancel(), __aexit__
ClientDisconnects ==
    /\ stream_pc = "receive_text"
    /\ yf_tasks' = cancel(yf_tasks, yf_task)
    /\ yf_sockets' = close(yf_sockets, ManagedSocket)
    /\ stream_events' =
          stream_events \o <<Event("cancel", yf_task), Event("close", ManagedSocket)>>
    /\ stream_pc' = "returned"
    /\ UNCHANGED <<current_tickers, yf_websocket, yf_task, custom_tickers,
                   stream_received, update_before, update_return>>
    /\ StreamUnchanged

\* receive_text or json.loads raises something else (the text is not JSON):
\* __aexit__ and the outer except; yf_task.cancel() is not reached
ReceiveFails ==
    /\ stream_pc = "receive_text"
    /\ yf_sockets' = close(yf_sockets, ManagedSocket)
    /\ stream_events' = Append(stream_events, Event("close", ManagedSocket))
    /\ stream_pc' = "returned"
    /\ UNCHANGED <<current_tickers, yf_tasks, yf_websocket, yf_task, custom_tickers,
                   stream_received, update_before, update_return>>
    /\ StreamUnchanged

-----------------------------------------------------------------------------
(* ProgressBroadcaster (optimization/api/api_utils.py) and the endpoint     *)
(* /ws/progress (optimization/api/routes.py)                                *)
(* All coroutines run on one event loop: a step is what runs between two    *)
(* awaits.  broadcast_progress yields at each await of send_text; connect   *)
(* appends after accept; the endpoint calls disconnect when receive_text    *)
(* raises WebSocketDisconnect, some time after the client closed.           *)

Clients == {"c1", "c2", "c3"}

NoClient == "none"

\* how many broadcasts the optimiser schedules
MaxBroadcasts == 2

\* websocket in self.connections
Contains(list, x) == \E i \in DOMAIN list : list[i] = x

\* list.remove(x): the first occurrence, ValueError when there is none
remove(list, x) ==
    LET first == CHOOSE i \in DOMAIN list : list[i] = x /\ \A j \in 1..(i - 1) : list[j] # x
    IN  SubSeq(list, 1, first - 1) \o SubSeq(list, first + 1, Len(list))

\* "for connection in dead_connections: self.connections.remove(connection)"
RECURSIVE RemoveDead(_, _)
RemoveDead(list, dead) ==
    IF dead = <<>> THEN [status |-> "returned", connections |-> list]
    ELSE IF ~Contains(list, Head(dead))
    THEN [status |-> "raised", connections |-> list]
    ELSE RemoveDead(remove(list, Head(dead)), Tail(dead))

BroadcastUnchanged == UNCHANGED <<engineVars, validationVars, requestVars, streamVars>>

\* websocket_progress_endpoint: broadcaster.connect(websocket)
Connect(client) ==
    /\ client_sockets[client] = "new"
    /\ client_sockets' = [client_sockets EXCEPT ![client] = "open"]
    /\ connections' = Append(connections, client)
    /\ UNCHANGED <<broadcast_pc, broadcast_position, sending_to, dead_connections,
                   delivered, failed_sends, listed_at_start, released_during,
                   broadcasts_started>>
    /\ BroadcastUnchanged

\* the client closes its websocket
ClientCloses(client) ==
    /\ client_sockets[client] = "open"
    /\ client_sockets' = [client_sockets EXCEPT ![client] = "closed"]
    /\ UNCHANGED <<connections, broadcast_pc, broadcast_position, sending_to,
                   dead_connections, delivered, failed_sends, listed_at_start,
                   released_during, broadcasts_started>>
    /\ BroadcastUnchanged

\* websocket_progress_endpoint: except WebSocketDisconnect: broadcaster.disconnect(websocket)
Disconnect(client) ==
    /\ client_sockets[client] = "closed"
    /\ client_sockets' = [client_sockets EXCEPT ![client] = "released"]
    /\ connections' = IF Contains(connections, client)
                      THEN remove(connections, client) ELSE connections
    /\ released_during' = IF broadcast_pc = "send"
                          THEN released_during \cup {client} ELSE released_during
    /\ UNCHANGED <<broadcast_pc, broadcast_position, sending_to, dead_connections,
                   delivered, failed_sends, listed_at_start, broadcasts_started>>
    /\ BroadcastUnchanged

\* broadcast_progress up to its first await: the return for an empty list,
\* or the first send_text
BeginBroadcast ==
    /\ broadcast_pc \in {"idle", "returned"}
    /\ broadcasts_started < MaxBroadcasts
    /\ broadcasts_started' = broadcasts_started + 1
    /\ dead_connections' = <<>>
    /\ delivered' = [client \in Clients |-> 0]
    /\ listed_at_start' = {connections[i] : i \in DOMAIN connections}
    /\ released_during' = {}
    /\ IF connections = <<>>
       THEN /\ broadcast_pc' = "returned"
            /\ broadcast_position' = 0
            /\ sending_to' = NoClient
       ELSE /\ broadcast_pc' = "send"
            /\ broadcast_position' = 1
            /\ sending_to' = connections[1]
    /\ UNCHANGED <<connections, client_sockets, failed_sends>>
    /\ BroadcastUnchanged

\* the awaited send_text completes or raises; the loop goes on to the next
\* element of the list as it is now, or ends and the dead connections are
\* removed
SendCompletes(sent) ==
    /\ broadcast_pc = "send"
    /\ client_sockets[sending_to] # "open" => ~sent
    /\ delivered' = IF sent THEN [delivered EXCEPT ![sending_to] = @ + 1] ELSE delivered
    /\ failed_sends' = IF sent THEN failed_sends ELSE failed_sends \cup {sending_to}
    /\ LET dead == IF sent THEN dead_connections ELSE Append(dead_connections, sending_to)
       IN  IF broadcast_position < Len(connections)
           THEN /\ broadcast_position' = broadcast_position + 1
                /\ sending_to' = connections[broadcast_position + 1]
                /\ dead_connections' = dead
                /\ broadcast_pc' = "send"
                /\ connections' = connections
           ELSE /\ broadcast_position' = broadcast_position
                /\ sending_to' = NoClient
                /\ dead_connections' = dead
                /\ broadcast_pc' = RemoveDead(connections, dead).status
                /\ connections' = RemoveDead(connections, dead).connections
    /\ UNCHANGED <<client_sockets, listed_at_start, released_during, broadcasts_started>>
    /\ BroadcastUnchanged

-----------------------------------------------------------------------------
(* Specifications: the inputs of one operation are drawn from the bounded   *)
(* sets, the variables of the other operations stay idle                    *)

RegimeIdle ==
    regime_asset_factors = <<>> /\ regime_result = NoCall /\ regime_previous = NoCall

RiskIdle == portfolio_paths = <<>> /\ risk_result = NoRisk

MetricsIdle == weights = <<>> /\ metrics_result = NoMetrics

SharpeIdle == risk_free_rate = NoValue /\ sharpe_result = NoSharpe

SimIdle == rng_state = 0 /\ sim_calls = <<>>

FrontierIdle ==
    /\ num_points = 0
    /\ target_index = 1
    /\ solve_statuses = <<>>
    /\ efficient_frontier = <<>>
    /\ failed_points = 0
    /\ frontier_result = NoFrontier

SelectionIdle == pc_loadings = <<>> /\ pc_eigval = NoValue /\ pc_selected = NoSelection

AnalysisIdle ==
    /\ correlation_result = NoAnalysis
    /\ risk_factors_result = NoAnalysis
    /\ SelectionIdle

ValidationIdle == validation_request = <<>> /\ validation_result = NoValidation

RequestIdle ==
    /\ api_request = <<>>
    /\ api_pc = "idle"
    /\ api_calls = <<>>
    /\ api_response = NoResponse

StreamIdle ==
    /\ current_tickers = <<>>
    /\ yf_sockets = <<>>
    /\ yf_tasks = <<>>
    /\ yf_websocket = 0
    /\ yf_task = 0
    /\ custom_tickers = <<>>
    /\ stream_pc = "idle"
    /\ stream_events = <<>>
    /\ stream_received = 0
    /\ update_before = NoUpdate
    /\ update_return = NoReturn

BroadcastIdle ==
    /\ connections = <<>>
    /\ client_sockets = <<>>
    /\ broadcast_pc = "idle"
    /\ broadcast_position = 0
    /\ sending_to = NoClient
    /\ dead_connections = <<>>
    /\ delivered = <<>>
    /\ failed_sends = {}
    /\ listed_at_start = {}
    /\ released_during = {}
    /\ broadcasts_started = 0

ApiIdle == ValidationIdle /\ RequestIdle /\ StreamIdle /\ BroadcastIdle

EngineIdle ==
    /\ mean_returns = DefaultMean
    /\ cov_matrix = DefaultCov
    /\ RegimeIdle
    /\ RiskIdle
    /\ MetricsIdle
    /\ SharpeIdle
    /\ SimIdle
    /\ FrontierIdle
    /\ AnalysisIdle

InitRegime ==
    /\ mean_returns \in MeanVectors
    /\ cov_matrix \in CovMatrices
    /\ regime_asset_factors \in RegimeDicts
    /\ regime_result = NoCall
    /\ regime_previous = NoCall
    /\ RiskIdle
    /\ MetricsIdle
    /\ SharpeIdle
    /\ SimIdle
    /\ AnalysisIdle
    /\ ApiIdle
    /\ FrontierIdle

InitRisk ==
    /\ mean_returns = DefaultMean
    /\ cov_matrix = DefaultCov
    /\ RegimeIdle
    /\ portfolio_paths \in PathLists
    /\ risk_result = NoRisk
    /\ MetricsIdle
    /\ SharpeIdle
    /\ SimIdle
    /\ AnalysisIdle
    /\ ApiIdle
    /\ FrontierIdle

NextRisk == RiskMetrics

SpecRisk == InitRisk /\ [][NextRisk]_vars

InitMetrics ==
    /\ mean_returns \in MeanVectors
    /\ cov_matrix \in CovMatrices
    /\ RegimeIdle
    /\ RiskIdle
    /\ weights \in WeightVectors
    /\ metrics_result = NoMetrics
    /\ SharpeIdle
    /\ SimIdle
    /\ AnalysisIdle
    /\ ApiIdle
    /\ FrontierIdle

NextMetrics == PortfolioMetrics

SpecMetrics == InitMetrics /\ [][NextMetrics]_vars

InitSharpe ==
    /\ mean_returns \in OptMeanVectors
    /\ cov_matrix \in PSDCovMatrices
    /\ RegimeIdle
    /\ RiskIdle
    /\ MetricsIdle
    /\ risk_free_rate \in RiskFreeRates
    /\ sharpe_result = NoSharpe
    /\ SimIdle
    /\ AnalysisIdle
    /\ ApiIdle
    /\ FrontierIdle

NextSharpe == MaximizeSharpe

SpecSharpe == InitSharpe /\ [][NextSharpe]_vars

NextRegime == ApplyRegime

SpecRegime == InitRegime /\ [][NextRegime]_vars

InitSim ==
    /\ mean_returns \in SimMeanVectors
    /\ cov_matrix \in SimCovMatrices
    /\ RegimeIdle
    /\ RiskIdle
    /\ weights \in SimWeights
    /\ metrics_result = NoMetrics
    /\ SharpeIdle
    /\ rng_state \in SeedStates
    /\ sim_calls \in [Invocations -> SimCallStates]
    /\ FrontierIdle
    /\ AnalysisIdle
    /\ ApiIdle

NextSim == \E i \in Invocations : SimulatePath(i) \/ SimulateReturn(i)

SpecSim == InitSim /\ [][NextSim]_vars

InitFrontier ==
    /\ mean_returns \in OptMeanVectors
    /\ cov_matrix \in PSDCovMatrices
    /\ RegimeIdle
    /\ RiskIdle
    /\ MetricsIdle
    /\ SharpeIdle
    /\ SimIdle
    /\ AnalysisIdle
    /\ ApiIdle
    /\ num_points \in 0..MaxPoints
    /\ target_index = 1
    /\ solve_statuses = <<>>
    /\ efficient_frontier = <<>>
    /\ failed_points = 0
    /\ frontier_result = NoFrontier

NextFrontier == FrontierSolve \/ FrontierFinish

SpecFrontier == InitFrontier /\ [][NextFrontier]_vars

\* the optimisation request: the efficient frontier, then the maximum-Sharpe
\* portfolio of the same mean and covariance
OptimizeSharpe ==
    /\ frontier_result.status = "returned"
    /\ MaximizeSharpe

\* the covariance matrices of the requests: the identity, two correlated
\* pairs, a singular matrix and the zero matrix (as multiples of 1/252)
RequestCovMatrices ==
    {Matrix(FNum(e[1], 252), FNum(e[2], 252), FNum(e[3], 252)) :
        e \in {<<1, 0, 1>>, <<4, -1, 1>>, <<1, 1, 4>>, <<1, 1, 1>>, <<0, 0, 0>>}}

InitOptimize ==
    /\ mean_returns \in OptMeanVectors
    /\ cov_matrix \in RequestCovMatrices
    /\ RegimeIdle
    /\ RiskIdle
    /\ MetricsIdle
    /\ risk_free_rate \in RiskFreeRates
    /\ sharpe_result = NoSharpe
    /\ SimIdle
    /\ AnalysisIdle
    /\ ApiIdle
    /\ num_points \in 0..MaxPoints
    /\ target_index = 1
    /\ solve_statuses = <<>>
    /\ efficient_frontier = <<>>
    /\ failed_points = 0
    /\ frontier_result = NoFrontier

NextOptimize == FrontierSolve \/ FrontierFinish \/ OptimizeSharpe

SpecOptimize == InitOptimize /\ [][NextOptimize]_vars

\* the two analyses of one frame
InitAnalysis ==
    /\ mean_returns = DefaultMean
    /\ cov_matrix \in AnalysisFrames
    /\ RegimeIdle
    /\ RiskIdle
    /\ MetricsIdle
    /\ SharpeIdle
    /\ SimIdle
    /\ FrontierIdle
    /\ AnalysisIdle
    /\ ApiIdle

NextAnalysis == AnalyzeCorrelation \/ AnalyzeRiskFactors

SpecAnalysis == InitAnalysis /\ [][NextAnalysis]_vars

\* the operations on inputs of any shape: the correlation analysis of a
\* frame, and the efficient frontier of a mean vector and a 2 x 2 covariance
InitShapes ==
    /\ \/ /\ mean_returns = DefaultMean
          /\ cov_matrix \in SpectrumMatrices \cup MalformedFrames
          /\ num_points = 0
       \/ /\ mean_returns \in OptMeanVectors \cup MismatchedMeanVectors
          /\ cov_matrix = DefaultCov
          /\ num_points \in 0..MaxPoints
    /\ RegimeIdle
    /\ RiskIdle
    /\ MetricsIdle
    /\ SharpeIdle
    /\ SimIdle
    /\ target_index = 1
    /\ solve_statuses = <<>>
    /\ efficient_frontier = <<>>
    /\ failed_points = 0
    /\ frontier_result = NoFrontier
    /\ AnalysisIdle
    /\ ApiIdle

NextShapes ==
    \/ AnalyzeCorrelation
    \/ FrontierSolve
    \/ FrontierDimensionError
    \/ FrontierFinish

SpecShapes == InitShapes /\ [][NextShapes]_vars

InitValidation ==
    /\ EngineIdle
    /\ RequestIdle
    /\ StreamIdle
    /\ BroadcastIdle
    /\ validation_request \in ValidationRequests
    /\ validation_result = NoValidation

NextValidation == ValidatePortfolio

SpecValidation == InitValidation /\ [][NextValidation]_vars

InitApi ==
    /\ EngineIdle
    /\ ValidationIdle
    /\ StreamIdle
    /\ BroadcastIdle
    /\ api_request \in ApiRequests
    /\ api_pc = "resolve_regime"
    /\ api_calls = <<>>
    /\ api_response = NoResponse

NextApi ==
    \/ ResolveRegime
    \/ FetchPrices
    \/ TransformRegime
    \/ RunSimulation
    \/ RunOptimization

SpecApi == InitApi /\ [][NextApi]_vars

InitStream ==
    /\ EngineIdle
    /\ ValidationIdle
    /\ RequestIdle
    /\ BroadcastIdle
    /\ current_tickers = DefaultTickers
    /\ yf_sockets = <<>>
    /\ yf_tasks = <<>>
    /\ yf_websocket = 0
    /\ yf_task = 0
    /\ custom_tickers = <<>>
    /\ stream_pc = "start"
    /\ stream_events = <<>>
    /\ stream_received = 0
    /\ update_before = NoUpdate
    /\ update_return = NoReturn

NextStream ==
    \/ StartStreaming
    \/ StartFails
    \/ ReceiveTickers
    \/ KeepSubscription
    \/ CloseOldSubscription
    \/ OpenNewSubscription
    \/ NewSubscriptionFails
    \/ ClientDisconnects
    \/ ReceiveFails

SpecStream == InitStream /\ [][NextStream]_vars

InitBroadcast ==
    /\ EngineIdle
    /\ ValidationIdle
    /\ RequestIdle
    /\ StreamIdle
    /\ connections = <<>>
    /\ client_sockets = [client \in Clients |-> "new"]
    /\ broadcast_pc = "idle"
    /\ broadcast_position = 0
    /\ sending_to = NoClient
    /\ dead_connections = <<>>
    /\ delivered = [client \in Clients |-> 0]
    /\ failed_sends = {}
    /\ listed_at_start = {}
    /\ released_during = {}
    /\ broadcasts_started = 0

NextBroadcast ==
    \/ \E client \in Clients : Connect(client)
    \/ \E client \in Clients : ClientCloses(client)
    \/ \E client \in Clients : Disconnect(client)
    \/ BeginBroadcast
    \/ \E sent \in BOOLEAN : SendCompletes(sent)

SpecBroadcast == InitBroadcast /\ [][NextBroadcast]_vars

InitSelection ==
    /\ mean_returns = DefaultMean
    /\ cov_matrix = DefaultCov
    /\ RegimeIdle
    /\ RiskIdle
    /\ MetricsIdle
    /\ SharpeIdle
    /\ SimIdle
    /\ FrontierIdle
    /\ ApiIdle
    /\ correlation_result = NoAnalysis
    /\ risk_factors_result = NoAnalysis
    /\ pc_loadings \in LoadingVectors
    /\ pc_eigval \in DominantEigenvalues
    /\ pc_selected = NoSelection

NextSelection == SelectAssets

SpecSelection == InitSelection /\ [][NextSelection]_vars

\* any one operation on its inputs
Init ==
    \/ InitRegime
    \/ InitRisk
    \/ InitMetrics
    \/ InitSharpe
    \/ InitSim
    \/ InitFrontier
    \/ InitOptimize

Next ==
    \/ NextRegime
    \/ NextRisk
    \/ NextMetrics
    \/ NextSharpe
    \/ NextSim
    \/ NextFrontier

Spec == Init /\ [][Next]_vars

-----------------------------------------------------------------------------
(* Claims about modify_portfolio_for_regime *)

RegimeCalled == regime_result.status # "none"

MissingTicker == \E t \in Tickers : t \notin DOMAIN regime_asset_factors

\* C1: whenever a ticker of the covariance matrix has no entry in the regime
\* dictionary, the call fails with MissingRegimeFactorError and returns no
\* mean/covariance pair.
C1_MissingFactorFails ==
    (RegimeCalled /\ MissingTicker) =>
        /\ regime_result.status = "raised"
        /\ regime_result.error = "MissingRegimeFactorError"

\* the identity regime: every mean_factor 1, every vol_factor 1, no
\* correlation move
IsIdentityRegime(factors) ==
    /\ DOMAIN factors = Tickers \cup {CMP}
    /\ factors[CMP] = FInt(0)
    /\ \A t \in Tickers :
          factors[t].mean_factor = FInt(1) /\ factors[t].vol_factor = FInt(1)

\* every variance is positive and |cov[t][u]| <= std[t] * std[u]
\* (squared: cov[t][u]^2 <= cov[t][t] * cov[u][u])
IsCorrelationBounded(cov) ==
    /\ \A t \in Tickers : FGt(cov[t][t], FInt(0))
    /\ \A t, u \in Tickers :
          FLe(FMul(cov[t][u], cov[t][u]), FMul(cov[t][t], cov[u][u]))

RegimeReturnedInputs ==
    /\ regime_result.status = "returned"
    /\ regime_result.mean = mean_returns
    /\ regime_result.cov = cov_matrix

\* C7 as stated: the identity regime returns the inputs for any baseline
\* mean and covariance.
C7_IdentityAnyCovariance ==
    (RegimeCalled /\ IsIdentityRegime(regime_asset_factors)) => RegimeReturnedInputs

\* C7 amended: the identity regime returns the inputs exactly when every
\* variance is positive and every covariance is bounded by the product of
\* the two standard deviations.
C7_IdentityBoundedCovariance ==
    (RegimeCalled /\ IsIdentityRegime(regime_asset_factors)) =>
        (RegimeReturnedInputs <=> IsCorrelationBounded(cov_matrix))

C7_Witness ==
    /\ RegimeCalled
    /\ IsIdentityRegime(regime_asset_factors)
    /\ IsCorrelationBounded(cov_matrix)
    /\ \E t, u \in Tickers : t # u /\ FLt(cov_matrix[t][u], FInt(0))
    /\ RegimeReturnedInputs

-----------------------------------------------------------------------------
(* Claims about calculate_risk_metrics *)

RiskCalled == risk_result.status = "returned"

VarCvarOrdered ==
        /\ FGe(risk_result.var_99, risk_result.var_90)
        /\ FGe(risk_result.cvar_90, risk_result.var_90)
        /\ FGe(risk_result.cvar_99, risk_result.var_99)
        /\ FGe(risk_result.cvar_99, risk_result.cvar_90)
        /\ FGe(risk_result.var_99_pct, risk_result.var_90_pct)
        /\ FGe(risk_result.cvar_90_pct, risk_result.var_90_pct)
        /\ FGe(risk_result.cvar_99_pct, risk_result.var_99_pct)
        /\ FGe(risk_result.cvar_99_pct, risk_result.cvar_90_pct)

\* C8 as stated: for every non-empty list of simulated paths the report
\* satisfies var_99 >= var_90, cvar_90 >= var_90, cvar_99 >= var_99 and
\* cvar_99 >= cvar_90, in the absolute and in the percentage fields.
C8_VarCvarOrdering == RiskCalled => VarCvarOrdered

\* C8 amended: the four orderings hold, in the absolute and in the
\* percentage fields, for every non-empty list of paths that start at a
\* positive initial value.
C8_OrderingForPositiveInitialValue ==
    (RiskCalled /\ portfolio_paths[1][1] > 0) => VarCvarOrdered

\* a report of paths from a positive initial value where the four figures
\* are pairwise different
C8_Witness ==
    /\ RiskCalled
    /\ portfolio_paths[1][1] > 0
    /\ FGt(risk_result.var_99, risk_result.var_90)
    /\ FGt(risk_result.cvar_90, risk_result.var_90)
    /\ FGt(risk_result.cvar_99, risk_result.var_99)
    /\ FGt(risk_result.cvar_99, risk_result.cvar_90)

AllValuesPositive(paths) ==
    \A p \in DOMAIN paths : \A t \in DOMAIN paths[p] : paths[p][t] > 0

\* the largest value of the path up to day t
PeakUpTo(path, t) ==
    CHOOSE m \in {path[s] : s \in 1..t} : \A s \in 1..t : path[s] <= m

\* (value_t - running_max_t) / running_max_t for every path and day
Drawdowns(paths) ==
    UNION {{FDiv(FInt(paths[p][t] - PeakUpTo(paths[p], t)), FInt(PeakUpTo(paths[p], t))) :
                t \in DOMAIN paths[p]} : p \in DOMAIN paths}

\* C20: for a non-empty list of paths with positive values, max_drawdown_pct
\* is 100 times the least of the drawdowns (value_t - running_max_t) /
\* running_max_t over all paths and days, and it is <= 0.
C20_MaxDrawdownIsWorstPeakToTrough ==
    (RiskCalled /\ AllValuesPositive(portfolio_paths)) =>
        /\ \E d \in Drawdowns(portfolio_paths) :
              /\ risk_result.max_drawdown_pct = FMul(d, FInt(100))
              /\ \A e \in Drawdowns(portfolio_paths) : FLe(d, e)
        /\ FLe(risk_result.max_drawdown_pct, FInt(0))

\* a report for a path that rises to 3 and falls to 1: the drawdown is
\* measured from the peak, -2/3, not from the initial value
C20_Witness ==
    /\ RiskCalled
    /\ AllValuesPositive(portfolio_paths)
    /\ \E p \in DOMAIN portfolio_paths : portfolio_paths[p] = <<InitialValue, 3, 1>>
    /\ risk_result.max_drawdown_pct = FNum(-200, 3)

-----------------------------------------------------------------------------
(* Claims about calculate_portfolio_metrics *)

MetricsCalled == metrics_result.status = "returned"

IsZeroMatrix(cov) == \A t, u \in Tickers : cov[t][u] = FInt(0)

IsLongOnlyFullyInvested(w) ==
    /\ \A t \in Tickers : FGe(w[t], FInt(0))
    /\ Dot(w, [t \in Tickers |-> FInt(1)]) = FInt(1)

VolatilityIsZero == metrics_result.annualized_volatility.k = "surd"
                    /\ metrics_result.annualized_volatility.n = 0

\* C9 as stated: for long-only, fully-invested weights and a PSD covariance
\* the volatility is >= 0, and it is 0 only if the covariance matrix is zero.
C9_ZeroOnlyForZeroMatrix ==
    (MetricsCalled /\ IsLongOnlyFullyInvested(weights) /\ IsPSD(cov_matrix)) =>
        /\ metrics_result.annualized_volatility.k = "surd"
        /\ VolatilityIsZero => IsZeroMatrix(cov_matrix)

\* C9 amended: the volatility is a number >= 0, and it is 0 exactly when the
\* covariance matrix maps the weight vector to the zero vector.
C9_ZeroIffNullVector ==
    (MetricsCalled /\ IsLongOnlyFullyInvested(weights) /\ IsPSD(cov_matrix)) =>
        /\ metrics_result.annualized_volatility.k = "surd"
        /\ VolatilityIsZero <=>
              (\A t \in Tickers : MatVec(cov_matrix, weights)[t] = FInt(0))

\* a PSD matrix with non-zero covariance and a positive volatility
C9_Witness ==
    /\ MetricsCalled
    /\ IsPSD(cov_matrix)
    /\ cov_matrix[Columns[1]][Columns[2]] # FInt(0)
    /\ \A t \in Tickers : FGt(weights[t], FInt(0))
    /\ metrics_result.annualized_volatility.k = "surd"
    /\ metrics_result.annualized_volatility.n > 0

-----------------------------------------------------------------------------
(* Claims about maximize_sharpe_portfolio *)

SharpeCalled == sharpe_result.status # "none"

DailyRiskFreeRate == FDiv(risk_free_rate, FInt(TradingDays))

AllMeansBelowRiskFree ==
    \A t \in Tickers : FLt(mean_returns[t], DailyRiskFreeRate)

\* C4: whenever every asset's daily mean return is below the daily risk-free
\* rate, also when all means are positive, the call fails and never returns
\* a portfolio.
C4_FailsBelowRiskFree ==
    (SharpeCalled /\ AllMeansBelowRiskFree) => sharpe_result.status = "raised"

NonOptimalStatuses ==
    {"optimal_inaccurate", "infeasible", "infeasible_inaccurate", "unbounded",
     "unbounded_inaccurate", "user_limit"}

\* the three outcomes the claim separates
OutcomeClass(status) ==
    IF status = "infeasible" THEN "infeasible"
    ELSE IF status = "unbounded" THEN "unbounded"
    ELSE "other"

\* C5: the error raised for a solver outcome is of a kind that neither of
\* the other two outcomes (infeasible, unbounded, any other non-optimal
\* status) raises.
C5_DistinctErrorKinds ==
    sharpe_result.status = "raised" =>
        \A other \in NonOptimalStatuses :
            OutcomeClass(other) # OutcomeClass(sharpe_result.solver_status)
                => SharpeError(other).type # sharpe_result.error.type

\* a / sqrt(x) >= b / sqrt(y) for two Sharpe ratios (false when either is
\* 0/0 or has a NaN volatility)
RatioGe(r1, r2) ==
    /\ r1.volatility.k = "surd" /\ r2.volatility.k = "surd"
    /\ ~(r1.volatility.n = 0 /\ r1.excess.n = 0)
    /\ ~(r2.volatility.n = 0 /\ r2.excess.n = 0)
    /\ LET a  == r1.excess
           b  == r2.excess
           x  == FNum(r1.volatility.n, r1.volatility.d)
           y  == FNum(r2.volatility.n, r2.volatility.d)
           ay == FMul(FMul(a, a), y)
           bx == FMul(FMul(b, b), x)
       IN  IF FGe(a, FInt(0)) /\ FLt(b, FInt(0)) THEN TRUE
           ELSE IF FLt(a, FInt(0)) /\ FGe(b, FInt(0)) THEN FALSE
           ELSE IF FGe(a, FInt(0)) THEN FGe(ay, bx)
           ELSE FLe(ay, bx)

\* the Sharpe ratio of weight vector w for the risk-free rate passed in
SharpeOf(w) ==
    LET m == calculate_portfolio_metrics(w, mean_returns, cov_matrix)
    IN  SharpeRatio(m.annualized_return, risk_free_rate, m.annualized_volatility)

IsPositiveDefinite(cov) ==
    /\ FGt(cov[Columns[1]][Columns[1]], FInt(0))
    /\ FGt(FSub(FMul(cov[Columns[1]][Columns[1]], cov[Columns[2]][Columns[2]]),
                FMul(cov[Columns[1]][Columns[2]], cov[Columns[1]][Columns[2]])),
           FInt(0))

\* C6: whenever max_sharpe returns, no long-only, fully-invested weight
\* vector has a larger Sharpe ratio, for the risk-free rate passed in, than
\* the returned weights.
C6_MaximisesSharpe ==
    (sharpe_result.status = "returned" /\ IsPositiveDefinite(cov_matrix)) =>
        \A w \in WeightVectors : RatioGe(SharpeOf(sharpe_result.weights), SharpeOf(w))

\* for a zero risk-free rate the QP as coded does maximise the Sharpe ratio
MaximisesSharpeAtZeroRate ==
    (sharpe_result.status = "returned" /\ IsPositiveDefinite(cov_matrix)
        /\ risk_free_rate = FInt(0)) =>
        \A w \in WeightVectors : RatioGe(SharpeOf(sharpe_result.weights), SharpeOf(w))

-----------------------------------------------------------------------------
(* Claims about simulate_portfolio_paths *)

\* is_psd of analyze_portfolio_correlation: min eigenvalue >= -tolerance,
\* i.e. cov + tolerance * I is positive semi-definite (tolerance 1e-8 = 1/2)
is_psd(cov) ==
    IsPSD([t \in Tickers |-> [u \in Tickers |->
              IF t = u THEN FAdd(cov[t][u], FNum(1, 2)) ELSE cov[t][u]]])

\* C2: a covariance matrix that is not PSD (min eigenvalue < -1e-8) is
\* rejected before any sample is drawn; no invocation draws a path or
\* returns paths for it.
C2_RejectsNonPSD ==
    ~is_psd(cov_matrix) =>
        \A i \in DOMAIN sim_calls :
            sim_calls[i].portfolio_paths = <<>> /\ sim_calls[i].pc # "returned"

\* C3: two invocations with the same mean, covariance, weights, initial
\* value and path count (and no other argument that could tell them apart)
\* return identical paths, whatever the interleaving.
C3_SameArgumentsSamePaths ==
    \A i, j \in DOMAIN sim_calls :
        (/\ sim_calls[i].pc = "returned"
         /\ sim_calls[j].pc = "returned"
         /\ sim_calls[i].initial_value = sim_calls[j].initial_value
         /\ sim_calls[i].num_simulations = sim_calls[j].num_simulations)
            => sim_calls[i].portfolio_paths = sim_calls[j].portfolio_paths

-----------------------------------------------------------------------------
(* Claims about calculate_efficient_frontier *)

OptimalOrNearOptimal == {"optimal", "optimal_inaccurate"}

\* the targets among the first k of the grid whose solve ended optimal or
\* near-optimal, in grid order
RECURSIVE SolvedTargets(_)
SolvedTargets(k) ==
    IF k = 0 THEN <<>>
    ELSE IF solve_statuses[k] \in OptimalOrNearOptimal
         THEN Append(SolvedTargets(k - 1), target_returns(mean_returns, num_points)[k])
         ELSE SolvedTargets(k - 1)

\* C10: the frontier holds exactly one point for each target whose solve
\* ended optimal or near-optimal and none for any other target, in the order
\* of the target-return grid; the call returns that list once the whole grid
\* has been solved.
C10_OnePointPerSolvedTargetInGridOrder ==
    LET solved == SolvedTargets(Len(solve_statuses))
    IN  /\ Len(efficient_frontier) = Len(solved)
        /\ \A k \in 1..Len(efficient_frontier) :
              efficient_frontier[k].return = FMul(solved[k], FInt(TradingDays))
        /\ frontier_result.status = "returned" =>
              /\ Len(solve_statuses) = num_points
              /\ frontier_result.points = efficient_frontier

\* a returned frontier of two different points around a skipped target
C10_Witness ==
    /\ frontier_result.status = "returned"
    /\ Len(solve_statuses) = 3
    /\ solve_statuses[2] = "user_limit"
    /\ Len(frontier_result.points) = 2
    /\ FLt(frontier_result.points[1].return, frontier_result.points[2].return)

FrontierFinished == frontier_result.status # "none"

NoTargetSolved ==
    \A k \in 1..Len(solve_statuses) : solve_statuses[k] \notin OptimalOrNearOptimal

\* C11: if no target of the grid yields an optimal or near-optimal solve,
\* the call fails with an EmptyFrontierError whose message reports how many
\* of the num_points solves failed; it never returns an empty list.
C11_EmptyFrontierError ==
    /\ (FrontierFinished /\ NoTargetSolved) =>
          /\ frontier_result.status = "raised"
          /\ frontier_result.error.type = "EmptyFrontierError"
          /\ frontier_result.error.reports_failed
    /\ frontier_result.status = "returned" => frontier_result.points # <<>>

\* the part of C11 that the code does satisfy: an empty frontier is never
\* returned, and a grid with at least one target reports its failed count
EmptyFrontierRaisesValueError ==
    /\ (FrontierFinished /\ NoTargetSolved) =>
          /\ frontier_result.status = "raised"
          /\ frontier_result.error.type = "ValueError"
          /\ frontier_result.error.reports_failed <=> num_points > 0
          /\ frontier_result.error.failed_points = num_points
    /\ frontier_result.status = "returned" => frontier_result.points # <<>>

-----------------------------------------------------------------------------
(* Claims about the weights the optimiser returns *)

-----------------------------------------------------------------------------
(* Claims about the shape of the simulated paths *)

\* C13: simulate returns exactly num_paths paths, each of length
\* horizon_days + 1 for the requested horizon_days, and the first element of
\* every path equals initial_value.
C13_PathsHaveRequestedShape ==
    \A i \in DOMAIN sim_calls :
        sim_calls[i].pc = "returned" =>
            /\ Len(sim_calls[i].portfolio_paths) = sim_calls[i].num_simulations
            /\ \A k \in 1..Len(sim_calls[i].portfolio_paths) :
                  /\ Len(sim_calls[i].portfolio_paths[k]) = sim_calls[i].horizon_days + 1
                  /\ sim_calls[i].portfolio_paths[k][1] = sim_calls[i].initial_value

\* what the code does instead: the horizon is always the default size
PathsHaveDefaultShape ==
    \A i \in DOMAIN sim_calls :
        sim_calls[i].pc = "returned" =>
            /\ Len(sim_calls[i].portfolio_paths) = sim_calls[i].num_simulations
            /\ \A k \in 1..Len(sim_calls[i].portfolio_paths) :
                  /\ Len(sim_calls[i].portfolio_paths[k]) = SizeDays + 1
                  /\ sim_calls[i].portfolio_paths[k][1] = sim_calls[i].initial_value

-----------------------------------------------------------------------------
(* Claims about the shapes of the inputs *)

ShapeErrorRaised(result) ==
    result.status = "raised" /\ result.error.type = "InputShapeError"

\* C15: analyze_portfolio_correlation on a frame that is not square or is
\* empty, and calculate_efficient_frontier on a mean vector whose length is
\* not the dimension of the covariance, end with InputShapeError: they return
\* no result and raise no other error.
C15_ShapeErrorAtBoundary ==
    /\ (correlation_result # NoAnalysis
            /\ (~IsSquareShape(cov_matrix) \/ Shape(cov_matrix) = <<0, 0>>))
          => ShapeErrorRaised(correlation_result)
    /\ (frontier_result # NoFrontier /\ ~DimensionsAgree(mean_returns, cov_matrix))
          => ShapeErrorRaised(frontier_result)

\* what the code does on such inputs: the error comes from numpy, from the
\* builtin min or from cvxpy, and a grid of no point hides the mismatch
\* behind the ValueError of the empty frontier
ShapeFailsInsideLibrary ==
    /\ (correlation_result # NoAnalysis
            /\ (~IsSquareShape(cov_matrix) \/ Shape(cov_matrix) = <<0, 0>>))
          => /\ correlation_result.status = "raised"
             /\ correlation_result.error.type \in {"LinAlgError", "ValueError"}
    /\ (frontier_result # NoFrontier /\ ~DimensionsAgree(mean_returns, cov_matrix))
          => /\ frontier_result.status = "raised"
             /\ frontier_result.error.type =
                    (IF num_points = 0 THEN "ValueError" ELSE "Exception")

-----------------------------------------------------------------------------
(* Claims about analyze_portfolio_correlation *)

CorrelationReturned == correlation_result.status = "returned"

\* lo <= hi are the eigenvalues of the symmetric 2 x 2 matrix cov: their sum
\* is its trace and their product its determinant
IsSpectrum(lo, hi, cov) ==
    LET a == cov[Columns[1]][Columns[1]]
        b == cov[Columns[2]][Columns[1]]
        c == cov[Columns[2]][Columns[2]]
    IN  /\ FLe(lo, hi)
        /\ FAdd(lo, hi) = FAdd(a, c)
        /\ FMul(lo, hi) = FSub(FMul(a, c), FMul(b, b))

IsDiagonal(cov) == \A t, u \in Tickers : t # u => cov[t][u] = FInt(0)

\* C16: the report holds the extreme eigenvalues of the matrix;
\* condition_number is max/min when the min eigenvalue is > 0 and +infinity
\* when it is <= 0; is_psd is true exactly when the min eigenvalue is
\* >= -1e-8; for diag(a, b) with a >= b > 0 the condition number is a/b.
C16_ConditionNumberAndPsdFlag ==
    CorrelationReturned =>
        LET lo == correlation_result.min_eigenvalue
            hi == correlation_result.max_eigenvalue
            a == cov_matrix[Columns[1]][Columns[1]]
            c == cov_matrix[Columns[2]][Columns[2]]
        IN  /\ IsSpectrum(lo, hi, cov_matrix)
            /\ FGt(lo, FInt(0)) => correlation_result.condition_number = FDiv(hi, lo)
            /\ FLe(lo, FInt(0)) => correlation_result.condition_number = Inf(1)
            /\ correlation_result.is_psd <=> FGe(lo, FNum(-1, 2))
            /\ correlation_result.is_psd <=> is_psd(cov_matrix)
            /\ (IsDiagonal(cov_matrix) /\ FGe(a, c) /\ FGt(c, FInt(0)))
                  => correlation_result.condition_number = FDiv(a, c)

\* diag([4, 1]) has condition number 4 and is PSD
C16_Witness ==
    /\ CorrelationReturned
    /\ cov_matrix = Matrix(FInt(4), FInt(0), FInt(1))
    /\ correlation_result.condition_number = FInt(4)
    /\ correlation_result.is_psd

IsSymmetric(m) == \A t, u \in Tickers : m[t][u] = m[u][t]

IsIdentity(m) ==
    \A t, u \in Tickers : m[t][u] = (IF t = u THEN FInt(1) ELSE FInt(0))

\* entries in [-1, 1], unit diagonal, symmetric for a symmetric input, the
\* identity for a diagonal input
IsCorrelationOf(corr, cov) ==
    /\ \A t, u \in Tickers : FGe(corr[t][u], FInt(-1)) /\ FLe(corr[t][u], FInt(1))
    /\ \A t \in Tickers : corr[t][t] = FInt(1)
    /\ IsSymmetric(cov) => IsSymmetric(corr)
    /\ IsDiagonal(cov) => IsIdentity(corr)

\* C17: for every matrix analyze_portfolio_correlation returns a report for,
\* the correlation matrix has every entry in [-1, 1], every diagonal entry
\* equal to 1, is symmetric when the input is, and is the identity when the
\* input is diagonal.
C17_CorrelationMatrixShape ==
    CorrelationReturned =>
        IsCorrelationOf(correlation_result.correlation_matrix, cov_matrix)

\* the same for the matrices whose variances are all positive
C17_CorrelationMatrixShapePositiveVariances ==
    (CorrelationReturned /\ \A t \in Tickers : FGt(cov_matrix[t][t], FInt(0))) =>
        IsCorrelationOf(correlation_result.correlation_matrix, cov_matrix)

\* a returned report for positive variances and a covariance twice their
\* product: the clip acts, the correlation is 1
C17_Witness ==
    /\ CorrelationReturned
    /\ cov_matrix = Matrix(FInt(1), FInt(2), FInt(1))
    /\ correlation_result.correlation_matrix[Columns[1]][Columns[2]] = FInt(1)
    /\ IsCorrelationOf(correlation_result.correlation_matrix, cov_matrix)

-----------------------------------------------------------------------------
(* Claims about analyze_portfolio_risk_factors *)

RiskFactorsReturned ==
    risk_factors_result.status = "returned" /\ Shape(cov_matrix) = <<2, 2>>

\* diag(a, b) with a > b > 0, in either order of the assets
IsDiagonalDistinctPositive(cov) ==
    /\ IsDiagonal(cov)
    /\ \A t \in Tickers : FGt(cov[t][t], FInt(0))
    /\ cov[Columns[1]][Columns[1]] # cov[Columns[2]][Columns[2]]

\* the asset of largest variance, and the two variances in descending order
LargestVarianceAsset(cov) ==
    IF FGe(cov[Columns[1]][Columns[1]], cov[Columns[2]][Columns[2]])
    THEN Columns[1] ELSE Columns[2]

VariancesDescending(cov) ==
    IF FGe(cov[Columns[1]][Columns[1]], cov[Columns[2]][Columns[2]])
    THEN <<cov[Columns[1]][Columns[1]], cov[Columns[2]][Columns[2]]>>
    ELSE <<cov[Columns[2]][Columns[2]], cov[Columns[1]][Columns[1]]>>

IsDescending(seq) == \A i \in 1..(Len(seq) - 1) : FGe(seq[i], seq[i + 1])

\* the first principal component, when listed, loads 100% on the asset
FirstComponentLoadsOn(asset) ==
    risk_factors_result.dominant_factor_loadings # <<>> =>
        \E i \in DOMAIN risk_factors_result.dominant_factor_loadings[1] :
            /\ risk_factors_result.dominant_factor_loadings[1][i].asset = asset
            /\ risk_factors_result.dominant_factor_loadings[1][i].pct = FInt(100)

\* C18: the reported eigenvalues are those of the input matrix in descending
\* order: for diag(a, b) with a > b > 0 they are [a, b], and the first
\* principal component loads 100% on the asset whose variance is a.
C18_EigenvaluesOfInputDescending ==
    RiskFactorsReturned =>
        /\ IsDescending(risk_factors_result.eigenvalues)
        /\ IsDiagonalDistinctPositive(cov_matrix) =>
              /\ risk_factors_result.eigenvalues = VariancesDescending(cov_matrix)
              /\ FirstComponentLoadsOn(LargestVarianceAsset(cov_matrix))

\* what the code reports: the eigenvalues times 10000, in descending order,
\* with the first component on the asset of largest variance
EigenvaluesScaledDescending ==
    RiskFactorsReturned =>
        /\ IsDescending(risk_factors_result.eigenvalues)
        /\ IsDiagonalDistinctPositive(cov_matrix) =>
              /\ risk_factors_result.eigenvalues =
                    [k \in 1..2 |-> FMul(VariancesDescending(cov_matrix)[k], FInt(10000))]
              /\ FirstComponentLoadsOn(LargestVarianceAsset(cov_matrix))

\* principal component k is listed in dominant_factor_loadings
IsListed(k) == k \in DOMAIN risk_factors_result.dominant_factor_loadings

\* C19: principal component k (1-based, descending order) is listed in
\* dominant_factor_loadings exactly when its scaled eigenvalue, and that of
\* every component before it, is strictly greater than 1.0.
C19_ListedIffAboveOne ==
    RiskFactorsReturned =>
        \A k \in DOMAIN risk_factors_result.eigenvalues :
            IsListed(k) <=>
                \A j \in 1..k : FGt(risk_factors_result.eigenvalues[j], FInt(1))

\* what the code does: a component is listed exactly when its scaled
\* eigenvalue, and that of every component before it, is not below 1.0
ListedIffNotBelowOne ==
    RiskFactorsReturned =>
        \A k \in DOMAIN risk_factors_result.eigenvalues :
            IsListed(k) <=>
                \A j \in 1..k : FGe(risk_factors_result.eigenvalues[j], FInt(1))

-----------------------------------------------------------------------------
(* Claims about the figures modify_portfolio_for_regime returns *)

CoversEveryAsset(factors) == Tickers \cup {CMP} \subseteq DOMAIN factors

\* cov[i,j] * vol_factor[i] * vol_factor[j]
VolScaledCovariance(cov, factors) ==
    [t \in Tickers |-> [u \in Tickers |->
        FMul(cov[t][u], FMul(factors[t].vol_factor, factors[u].vol_factor))]]

\* the result the claim describes
ExpectedRegimeMean(mean, factors) ==
    [t \in Tickers |-> FMul(mean[t], factors[t].mean_factor)]

ExpectedRegimeCov(cov, factors) ==
    LET scaled == VolScaledCovariance(cov, factors)
        corr   == correlation_matrix(scaled)
        sd     == std_devs(scaled)
    IN  [t \in Tickers |-> [u \in Tickers |->
            IF t = u
            THEN FMul(cov[t][t], FMul(factors[t].vol_factor, factors[t].vol_factor))
            ELSE FMul(FClip(FMul(corr[t][u], FAdd(FInt(1), factors[CMP])),
                            FInt(-1), FInt(1)),
                      FMul(sd[t], sd[u]))]]

RegimeReturnedExpected ==
    /\ regime_result.status = "returned"
    /\ regime_result.mean = ExpectedRegimeMean(mean_returns, regime_asset_factors)
    /\ regime_result.cov = ExpectedRegimeCov(cov_matrix, regime_asset_factors)

-----------------------------------------------------------------------------
(* Claims about the arguments of modify_portfolio_for_regime *)

ArgumentsKept ==
    /\ mean_returns' = mean_returns
    /\ cov_matrix' = cov_matrix
    /\ regime_asset_factors' = regime_asset_factors

\* C21: a call of modify_portfolio_for_regime, whether it returns or raises,
\* leaves the mean vector, the covariance matrix and the regime dictionary it
\* was given as they were, and a second call with the same arguments gives
\* the result of the first.
C21_ArgumentsKeptAndCallsRepeatable ==
    /\ [][ArgumentsKept]_vars
    /\ [](regime_previous.status # "none" => regime_result = regime_previous)

\* two calls that returned means different from those passed
C21_Witness ==
    /\ RegimeCallsMade = 2
    /\ regime_result.status = "returned"
    /\ regime_result.mean # mean_returns
    /\ regime_result.cov # cov_matrix
    /\ regime_previous = regime_result

-----------------------------------------------------------------------------
(* Claims about validate_portfolio *)

ValidationCalled == validation_result.status # "none"

\* the conditions the claim lists, on the request
ListedConditions(r) ==
    /\ Len(r.tickers) = Len(r.weights)
    /\ \A i \in DOMAIN r.tickers : ~IsBlankTicker(r.tickers[i])
    /\ \A i \in DOMAIN r.weights :
          IsNumberValue(r.weights[i]) /\ FGt(r.weights[i], FInt(0))
    /\ (\A i \in DOMAIN r.weights : IsNumberValue(r.weights[i])) =>
          FLe(FAbs(FSub(FSum(r.weights), FInt(1))), FNum(1, 10000))
    /\ ~HasDuplicates(r.tickers)
    /\ r.start_date.parses /\ r.end_date.parses
    /\ r.start_date.day <= r.end_date.day
    /\ r.start_date.day <= 0 /\ r.end_date.day <= 0
    /\ r.regime_factors.given =>
          LET factors == r.regime_factors.factors
          IN  /\ CMP \in DOMAIN factors
              /\ FLt(FAbs(factors[CMP]), FInt(1))
              /\ \A t \in DOMAIN factors \ {CMP} :
                    factors[t].vol_factor # NoneValue
                        /\ FGt(factors[t].vol_factor, FInt(0))
    /\ r.fetch = "prices"

ReturnedFailure ==
    /\ validation_result.status = "returned"
    /\ ~validation_result.success
    /\ validation_result.errors # <<>>

ReturnedSuccess ==
    validation_result.status = "returned" /\ validation_result.success

\* C22: validate_portfolio returns success = true only when every listed
\* condition holds, and in every other case it returns success = false with
\* a non-empty list of errors.
C22_SuccessOnlyIfValidElseErrors ==
    ValidationCalled =>
        /\ ReturnedSuccess => ListedConditions(validation_request)
        /\ ~ReturnedSuccess => ReturnedFailure

\* what the code does: the same for requests whose weights are all numbers
ValidatesNumericWeights ==
    (ValidationCalled
        /\ \A i \in DOMAIN validation_request.weights :
              IsNumberValue(validation_request.weights[i])) =>
        /\ ReturnedSuccess => ListedConditions(validation_request)
        /\ ~ReturnedSuccess => ReturnedFailure

\* and a weight that is not a number ends the call with TypeError
NonNumericWeightRaises ==
    (ValidationCalled
        /\ \E i \in DOMAIN validation_request.weights :
              ~IsNumberValue(validation_request.weights[i])) =>
        validation_result.status = "raised" /\ validation_result.error = "TypeError"

-----------------------------------------------------------------------------
(* Claims about the API entry points *)

\* the regime name trimmed, lower-cased and with spaces replaced by
\* underscores, character by character
NonBlankPositions(name) == {i \in DOMAIN name : name[i] \notin whitespace}

FirstOf(S) == CHOOSE i \in S : \A j \in S : i <= j

LastOf(S) == CHOOSE i \in S : \A j \in S : j <= i

TrimmedName(name) ==
    IF NonBlankPositions(name) = {} THEN <<>>
    ELSE SubSeq(name, FirstOf(NonBlankPositions(name)), LastOf(NonBlankPositions(name)))

NormalisedName(name) ==
    [i \in DOMAIN TrimmedName(name) |->
        LET c == TrimmedName(name)[i] IN
        IF c = " " THEN "_"
        ELSE IF \E k \in 1..26 : ascii_uppercase[k] = c
        THEN ascii_lowercase[CHOOSE k \in 1..26 : ascii_uppercase[k] = c]
        ELSE c]

AllowedRegimeNames == {historical, fiat_debasement, geopolitical_crisis, custom}

InvalidRegimeResponse == [status_code |-> 400, detail |-> "Invalid regime name"]

\* C23: a regime name that, after trimming, lower-casing and replacing spaces
\* by underscores, is not historical, fiat_debasement, geopolitical_crisis or
\* custom is rejected with HTTP 400 "Invalid regime name" before any price
\* data is fetched and before any regime transform, simulation or
\* optimisation runs.
C23_InvalidRegimeRejectedFirst ==
    (api_pc # "idle" /\ NormalisedName(api_request.regime) \notin AllowedRegimeNames) =>
        /\ api_calls = <<>>
        /\ api_pc \in {"resolve_regime", "done"}
        /\ api_pc = "done" => api_response = InvalidRegimeResponse

C23_Witness ==
    /\ api_pc = "done"
    /\ api_response = InvalidRegimeResponse
    /\ api_calls = <<>>
    /\ "\t" \in {api_request.regime[i] : i \in DOMAIN api_request.regime}
    /\ NormalisedName(api_request.regime) # api_request.regime

\* the other direction: an allowed name in any casing and padding is not
\* rejected as invalid
AllowedRegimeAccepted ==
    (api_pc = "done" /\ NormalisedName(api_request.regime) \in AllowedRegimeNames) =>
        api_response # InvalidRegimeResponse /\ api_calls # <<>>

AllowedRegimeCompleted ==
    /\ api_pc = "done"
    /\ api_response.status_code = 200
    /\ api_request.regime # NormalisedName(api_request.regime)

-----------------------------------------------------------------------------
(* Claims about LivePriceStreamer *)

UpdateReturned == stream_pc = "receive_text" /\ update_return.status = "returned"

SubscriptionChanged == set(custom_tickers) # set(update_before.current_tickers)

PositionsOf(event) == {k \in DOMAIN stream_events : stream_events[k] = event}

\* every websocket made by _update_subscription is made after the listen
\* task and the websocket it replaces were cancelled and closed
OldClosedBeforeNewCreated ==
    \A k \in DOMAIN stream_events :
        (stream_events[k].op = "create" /\ stream_events[k].id > 1) =>
            LET old == stream_events[k].id - 1 IN
            /\ \E i \in PositionsOf(Event("cancel", old)) : i < k
            /\ \E j \in PositionsOf(Event("close", old)) : j < k
            /\ \A m \in PositionsOf(Event("subscribe", stream_events[k].id)) : k < m

\* C24: when the requested ticker set differs from current_tickers, the old
\* listen task is cancelled and the old websocket closed before the new
\* websocket is created and subscribed to exactly the requested tickers,
\* current_tickers becomes the requested list and the new websocket and
\* listen task are returned; when the sets are equal nothing is cancelled,
\* closed, subscribed or changed and the same websocket and task are returned.
C24_UpdateSubscription ==
    /\ OldClosedBeforeNewCreated
    /\ UpdateReturned =>
          IF SubscriptionChanged
          THEN /\ update_before.yf_tasks[update_before.yf_task].status = "running"
               /\ yf_tasks[update_before.yf_task].status = "cancelled"
               /\ yf_sockets[update_before.yf_websocket].status = "closed"
               /\ update_return.yf_websocket = Len(update_before.yf_sockets) + 1
               /\ update_return.yf_task = Len(update_before.yf_tasks) + 1
               /\ Len(yf_sockets) = update_return.yf_websocket
               /\ Len(yf_tasks) = update_return.yf_task
               /\ yf_sockets[update_return.yf_websocket] =
                     [status |-> "open", subscribed |-> custom_tickers]
               /\ yf_tasks[update_return.yf_task] =
                     [status |-> "running", socket |-> update_return.yf_websocket]
               /\ current_tickers = custom_tickers
          ELSE /\ yf_sockets = update_before.yf_sockets
               /\ yf_tasks = update_before.yf_tasks
               /\ current_tickers = update_before.current_tickers
               /\ stream_events = update_before.stream_events
               /\ update_return.yf_websocket = update_before.yf_websocket
               /\ update_return.yf_task = update_before.yf_task

\* a second change of subscription has returned
C24_Witness ==
    /\ UpdateReturned
    /\ SubscriptionChanged
    /\ update_return.yf_websocket = 3
    /\ current_tickers = <<"BBB">>

\* an update with the same tickers in another order has returned
SameSetKept ==
    /\ UpdateReturned
    /\ ~SubscriptionChanged
    /\ custom_tickers # current_tickers
    /\ Len(yf_sockets) = 2

StartReturned == stream_pc = "returned"

\* C27: when start returns, every Yahoo websocket it opened has been closed
\* and every listen task it created has been cancelled.
C27_EverythingReleasedOnReturn ==
    StartReturned =>
        /\ \A socket \in DOMAIN yf_sockets : yf_sockets[socket].status # "open"
        /\ \A task \in DOMAIN yf_tasks : yf_tasks[task].status = "cancelled"

\* what the code releases: the websocket of the async with, and on a
\* disconnect the listen task that is current
ManagedSocketClosedOnReturn ==
    StartReturned =>
        /\ yf_sockets[ManagedSocket].status = "closed"
        /\ (stream_events[Len(stream_events) - 1].op = "cancel") =>
              yf_tasks[yf_task].status = "cancelled"

\* a disconnect without any change of subscription releases everything
NoChangeDisconnectReleasesAll ==
    (StartReturned /\ Len(yf_sockets) = 1 /\ Len(yf_tasks) = 1
        /\ stream_events[Len(stream_events) - 1].op = "cancel") =>
        /\ \A socket \in DOMAIN yf_sockets : yf_sockets[socket].status # "open"
        /\ \A task \in DOMAIN yf_tasks : yf_tasks[task].status = "cancelled"

-----------------------------------------------------------------------------
(* Claims about the early return of modify_portfolio_for_regime *)

\* the whole transform, from the fully scaled covariance matrix
CompleteRegimeCov(cov, factors) ==
    LET scaled == VolScaledCovariance(cov, factors)
        corr   == AdjustCorrelations(factors, correlation_matrix(scaled))
    IN  [t \in Tickers |-> [u \in Tickers |->
            FMul(corr[t][u], stdev_outer_product(scaled)[t][u])]]

RegimeReturnedComplete ==
    /\ regime_result.status = "returned"
    /\ CoversEveryAsset(regime_asset_factors)
    /\ regime_result.mean = ExpectedRegimeMean(mean_returns, regime_asset_factors)
    /\ regime_result.cov = CompleteRegimeCov(cov_matrix, regime_asset_factors)

\* C25: whenever modify_portfolio_for_regime returns normally, the returned
\* pair is either the complete regime transform or equal to the unmodified
\* inputs; it is never a partially scaled pair, whichever asset is missing.
C25_CompleteOrUnmodified ==
    regime_result.status = "returned" =>
        RegimeReturnedComplete \/ RegimeReturnedInputs

\* the first asset is missing and the second has factors that would change
\* its mean and its variance: the inputs come back unmodified
C25_Witness ==
    /\ Columns[1] \notin DOMAIN regime_asset_factors
    /\ Columns[2] \in DOMAIN regime_asset_factors
    /\ regime_asset_factors[Columns[2]].mean_factor # FInt(1)
    /\ regime_asset_factors[Columns[2]].vol_factor # FInt(1)
    /\ mean_returns[Columns[2]] # FInt(0)
    /\ FGt(cov_matrix[Columns[2]][Columns[2]], FInt(0))
    /\ RegimeReturnedInputs

\* a later asset is missing: the call does not return, it raises KeyError
\* in the inner loop of the first row
LaterAssetMissingRaises ==
    (RegimeCalled /\ Columns[1] \in DOMAIN regime_asset_factors
        /\ Columns[2] \notin DOMAIN regime_asset_factors) =>
        regime_result.status = "raised" /\ regime_result.error = "KeyError"

LaterAssetMissingReached ==
    /\ RegimeCalled
    /\ Columns[1] \in DOMAIN regime_asset_factors
    /\ Columns[2] \notin DOMAIN regime_asset_factors

-----------------------------------------------------------------------------
(* Claims about ProgressBroadcaster *)

BroadcastEnded == broadcast_pc \in {"returned", "raised"}

Listed == {connections[i] : i \in DOMAIN connections}

\* the clients that were listed when the broadcast began and that neither
\* closed nor were removed by disconnect while it ran
ConnectedThroughout ==
    {client \in listed_at_start :
        client_sockets[client] = "open" /\ client \notin released_during}

\* the clients that connected and have neither disconnected nor failed a send
ConnectedAndSound ==
    {client \in Clients :
        client_sockets[client] \in {"open", "closed"} /\ client \notin failed_sends}

NeverRaises == broadcast_pc # "raised"

AtMostOnce == \A client \in DOMAIN delivered : delivered[client] <= 1

ReachesConnectedThroughout ==
    broadcast_pc = "returned" =>
        \A client \in ConnectedThroughout \ failed_sends : delivered[client] = 1

ListIsConnectedAndSound == BroadcastEnded => Listed = ConnectedAndSound

\* C26: under every interleaving of connect, disconnect and
\* broadcast_progress, broadcast_progress never raises, delivers a progress
\* message at most once to each connection and to every connection that
\* stays connected throughout, and afterwards connections holds exactly the
\* clients that connected and have neither disconnected nor failed a send.
C26_BroadcastSafeUnderInterleaving ==
    /\ NeverRaises
    /\ AtMostOnce
    /\ ReachesConnectedThroughout
    /\ ListIsConnectedAndSound

\* what holds under every interleaving: no connection receives a message
\* twice, and no connection appears twice in the list
NoDuplicateDelivery ==
    /\ AtMostOnce
    /\ \A i, j \in DOMAIN connections : connections[i] = connections[j] => i = j

\* what holds when no disconnect runs while the broadcast is in flight
QuietBroadcastIsSafe ==
    (BroadcastEnded /\ released_during = {}) =>
        /\ NeverRaises
        /\ \A client \in ConnectedThroughout \ failed_sends : delivered[client] = 1
        /\ \A client \in failed_sends : client \notin Listed

QuietBroadcastDelivered ==
    /\ broadcast_pc = "returned"
    /\ released_during = {}
    /\ \E client \in Clients : delivered[client] = 1
    /\ failed_sends # {}

-----------------------------------------------------------------------------
(* Claims about the regime factors of a validated request *)

ValidatedCustomRequest == ReturnedSuccess /\ validation_request.regime_factors.given

\* the ticker has an entry with a mean_factor and a vol_factor
HasFactorEntry(factors, ticker) ==
    /\ ticker \in DOMAIN factors
    /\ factors[ticker].mean_factor # NoneValue
    /\ factors[ticker].vol_factor # NoneValue

\* modify_portfolio_for_regime on these factors runs its first loop to the
\* end: no early return for a missing asset and no KeyError
RegimeLoopCompletes(factors) ==
    ScaleLoop(factors, 1, DefaultMean, DefaultCov).status = "done"

\* C28: a custom request that passes validate_portfolio with regime factors
\* has a factor entry, with mean_factor and vol_factor, for every ticker of
\* the portfolio, so a validated request never reaches the regime transform
\* with an asset missing.
C28_ValidatedFactorsCoverEveryTicker ==
    ValidatedCustomRequest =>
        LET factors == validation_request.regime_factors.factors
            tickers == validation_request.tickers
        IN  /\ \A i \in DOMAIN tickers : HasFactorEntry(factors, tickers[i])
            /\ RegimeLoopCompletes(factors)

\* what the validation does ensure: correlation_move_pct is given and below
\* 1 in absolute value, and every entry that is present is complete with a
\* positive vol_factor
ValidatedEntriesAreComplete ==
    ValidatedCustomRequest =>
        LET factors == validation_request.regime_factors.factors
        IN  /\ CMP \in DOMAIN factors
            /\ FLt(FAbs(factors[CMP]), FInt(1))
            /\ \A ticker \in DOMAIN factors \ {CMP} :
                  /\ HasFactorEntry(factors, ticker)
                  /\ FGt(factors[ticker].vol_factor, FInt(0))

\* a validated request whose factors name no asset at all
ValidatedWithoutAnyEntry ==
    /\ ValidatedCustomRequest
    /\ DOMAIN validation_request.regime_factors.factors = {CMP}

-----------------------------------------------------------------------------
(* Claims about the tails of calculate_risk_metrics *)

PathLosses ==
    [i \in DOMAIN portfolio_paths |->
        PathLoss(portfolio_paths[i], portfolio_paths[1][1])]

\* the paths whose loss is at or above the value at risk
TailPositions(losses, var) == {i \in DOMAIN losses : FGe(losses[i], var)}

LargestLossPositions(losses) ==
    {i \in DOMAIN losses : \A j \in DOMAIN losses : FGe(losses[i], losses[j])}

RECURSIVE SumOver(_, _)
SumOver(values, S) ==
    IF S = {} THEN FInt(0)
    ELSE LET i == CHOOSE x \in S : TRUE IN FAdd(values[i], SumOver(values, S \ {i}))

\* the tail is not empty, holds the largest loss, and the reported CVaR is
\* its mean
TailHoldsLargestLoss(p, cvar_pct) ==
    LET losses == PathLosses
        tail   == TailPositions(losses, Percentile(losses, p))
    IN  /\ tail # {}
        /\ LargestLossPositions(losses) # {}
        /\ LargestLossPositions(losses) \subseteq tail
        /\ TailOf(losses, Percentile(losses, p)) # <<>>
        /\ cvar_pct = FMul(FDiv(SumOver(losses, tail), FInt(Cardinality(tail))), FInt(100))

EmptyTailFallbackTaken ==
    /\ RiskCalled
    /\ portfolio_paths[1][1] = 0
    /\ TailPositions(PathLosses, Percentile(PathLosses, 90)) = {}
    /\ risk_result.cvar_90_pct = risk_result.var_90_pct

-----------------------------------------------------------------------------
(* Claims about the assets reported for a principal component *)

AssetsSelected == pc_selected # NoSelection

AbsLoading(i) == IF pc_loadings[i] < 0 THEN -pc_loadings[i] ELSE pc_loadings[i]

RECURSIVE TotalLoading(_)
TotalLoading(n) == IF n = 0 THEN 0 ELSE AbsLoading(n) + TotalLoading(n - 1)

\* the assets whose share of the absolute loadings is at least 10%
Qualifying ==
    {i \in DOMAIN pc_loadings : 100 * AbsLoading(i) >= 10 * TotalLoading(Len(pc_loadings))}

\* the positions of the assets that are reported
Reported ==
    {i \in DOMAIN pc_loadings :
        \E k \in DOMAIN pc_selected : pc_selected[k].asset = FactorColumns[i]}

\* every entry is an asset of the portfolio with its share, no asset is
\* reported twice, and the shares descend
ReportedInDescendingOrder ==
    /\ \A k \in DOMAIN pc_selected :
          \E i \in DOMAIN pc_loadings :
              pc_selected[k] =
                  [asset |-> FactorColumns[i],
                   pct   |-> FNum(100 * AbsLoading(i), TotalLoading(Len(pc_loadings)))]
    /\ \A k, m \in DOMAIN pc_selected :
          pc_selected[k].asset = pc_selected[m].asset => k = m
    /\ \A k \in 1..(Len(pc_selected) - 1) :
          FGe(pc_selected[k].pct, pc_selected[k + 1].pct)

\* C30: for a dominant component, all assets whose loading share is at
\* least 10% are reported when at least 3 assets qualify and the scaled
\* eigenvalue is at least 5.0; otherwise exactly the 2 assets with the
\* largest shares (all assets when there are fewer than 2); the reported
\* list is in descending order of share.
C30_SelectedAssets ==
    AssetsSelected =>
        /\ ReportedInDescendingOrder
        /\ IF Cardinality(Qualifying) >= 3 /\ FGe(pc_eigval, FInt(5))
           THEN Reported = Qualifying
           ELSE /\ Len(pc_selected) = IF Len(pc_loadings) < 2 THEN Len(pc_loadings) ELSE 2
                /\ \A i \in Reported : \A j \in DOMAIN pc_loadings \ Reported :
                      AbsLoading(i) >= AbsLoading(j)

\* four assets, three of them at or above 10% and one below, on a component
\* with a scaled eigenvalue of exactly 5.0: the three are reported
C30_Witness ==
    /\ AssetsSelected
    /\ Len(pc_loadings) = 4
    /\ pc_eigval = FInt(5)
    /\ Cardinality(Qualifying) = 3
    /\ Len(pc_selected) = 3
    /\ \E k \in DOMAIN pc_selected : pc_selected[k].pct # pc_selected[1].pct

\* the same loadings on a component with a small eigenvalue: the top two
SmallEigenvalueTopTwo ==
    /\ AssetsSelected
    /\ Cardinality(Qualifying) >= 3
    /\ FLt(pc_eigval, FInt(5))
    /\ Len(pc_selected) = 2

====
